---- MODULE Spec2Model ----
(***************************************************************************)
(* Drainfield placer: the selection hierarchy (selector.py), candidate     *)
(* ranking (config_loader.py) and the fit search (geometry.py).            *)
(*                                                                         *)
(* Lengths are whole feet.  A boundary [w, h] is the rectangle             *)
(* Polygon([(0,0),(w,0),(w,h),(0,h)]) that main.py builds; a pattern's     *)
(* shoulder polyline is the rectangle (0,0),(w,0),(w,h),(0,h).  Angles are *)
(* whole degrees; cosines are scaled by 10000.  Python floats are modelled *)
(* by exact rationals plus the one place where double rounding changes a   *)
(* result (FloatExcess).                                                   *)
(***************************************************************************)
EXTENDS Integers, Sequences, FiniteSets, TLC

VARIABLES
    configs,           \* ConfigLoader.configs: key -> ordered patterns
    load_pos,          \* position of load_all_configs in its file list
    pc,                \* where the program is
    entry,             \* the entry point of the current call
    user_boundary,     \* argument of the current call
    flow_gpd,          \* argument of apply_hierarchy / calculate_required_sqft
    split_boundaries,  \* argument of apply_hierarchy ([given, list])
    config_type,       \* argument of select_configuration / calculate_required_sqft
    required_sqft,     \* argument of select_configuration; local of apply_hierarchy
    hpos,              \* index of the next entry of the hierarchy list
    attempted,         \* local list `attempted` of apply_hierarchy
    sel_calls,         \* history: the select_configuration calls of this call
    candidates,        \* argument of sort_candidates
    drainfield_polygon, \* argument of polygon_fits / try_rotations
    fit_angle,         \* rotation of the positioned footprint given to polygon_fits
    requirements,      \* DrainFieldRequirements.requirements: (flow, name) -> sizes
    base_cad_json,     \* the caller's CAD JSON, argument of place_drainfield
    selection_result,  \* argument of place_drainfield / place_split_drainfield
    first_result,      \* history: what the first of two equal calls returned
    result             \* the value returned by the current call

vars == << configs, load_pos, pc, entry, user_boundary, flow_gpd,
           split_boundaries, config_type, required_sqft, hpos, attempted,
           sel_calls, candidates, drainfield_polygon, fit_angle, requirements,
           base_cad_json, selection_result, first_result, result >>

----------------------------------------------------------------------------
(* Bounds of the model *)

MaxFlow == 4        \* flows given to apply_hierarchy: 1..MaxFlow
MaxDim == 3         \* boundary sides: 1..MaxDim feet
MaxReq == 7         \* areas given to select_configuration: 0..MaxReq
MaxAreaFlow == 1000 \* flows given to calculate_required_sqft: 0..MaxAreaFlow
MaxCands == 4       \* length of the lists given to sort_candidates
MaxPolyW == 2       \* footprints given to the fit search: 1..MaxPolyW wide
MaxPolyH == 6       \*   and 1..MaxPolyH long
MaxFitDim == 8      \* sides of the boundaries given to the fit search
MaxTurnedDim == 3   \* sides of the turned boundaries given to the fit search
MaxTurn == 6        \* their rotation: 1..MaxTurn times 15 degrees
MaxFitStep == 18    \* angles given to polygon_fits: 0..MaxFitStep times 5 degrees
MaxOffset == 10     \* small offsets given to polygon_fits, in 1/10000 ft
MaxEntry == 1       \* entries of a catalog file that may lack a key: 1..MaxEntry
MaxSize == 2        \* drainfield sizes of the requirements table: 1..MaxSize

(* Program constants *)

ToleranceMilli == 1     \* polygon_fits(tolerance=0.001), in 1/1000 sq ft
RotationStep == 5       \* try_rotations(rotation_step=5)
FineTune == 5           \* the +/-5 degrees of try_edge_aligned_rotations

----------------------------------------------------------------------------
(* Small helpers *)

Min(S) == CHOOSE x \in S : \A y \in S : x <= y

CeilDiv(n, d) == (n + d - 1) \div d

Max(S) == CHOOSE x \in S : \A y \in S : x >= y

\* faulty variant: the elements in descending order
RECURSIVE SortedSeqDescending(_)
SortedSeqDescending(S) == IF S = {} THEN << >>
                          ELSE << Max(S) >> \o SortedSeqDescending(S \ { Max(S) })

\* sorted(S): the elements of a set of numbers in ascending order
RECURSIVE SortedSeq(_)
SortedSeq(S) == IF S = {} THEN << >>
                ELSE << Min(S) >> \o SortedSeq(S \ { Min(S) })

----------------------------------------------------------------------------
(* The catalog files.  product_priority and the two classes. *)

\* faulty variant: arc24 is tried before mps9
product_priority_arc24_first == << "arc24", "mps9", "eq36lp" >>

product_priority == << "mps9", "arc24", "eq36lp" >>

Products == { product_priority[i] : i \in 1..Len(product_priority) }

BaseTypes == { "bed", "trench" }

Pattern(k, credit, rect, closed, w, h) ==
    [ pattern_key |-> k,
      metadata |-> [ credit_sqft |-> credit, is_rectangular |-> rect ],
      closed |-> closed, w |-> w, h |-> h ]

\* The content of the six JSON files <product>_<class>.json, in file order.
CatalogFiles ==
    [ k \in Products \X BaseTypes |->
        CASE k = << "mps9", "trench" >> ->
               << Pattern("t_l4", 4, FALSE, TRUE, 2, 2),
                  Pattern("t_r5", 5, TRUE, TRUE, 3, 1),
                  Pattern("t_r3", 3, TRUE, TRUE, 1, 2),
                  Pattern("t_r3b", 3, TRUE, TRUE, 1, 1) >>
          [] k = << "mps9", "bed" >> ->
               << Pattern("b_r7", 7, TRUE, TRUE, 3, 3),
                  Pattern("b_l2", 2, FALSE, TRUE, 1, 1) >>
          [] k = << "arc24", "trench" >> ->
               << Pattern("t_bad", 6, TRUE, FALSE, 1, 1),
                  Pattern("t_r2", 2, TRUE, TRUE, 1, 1),
                  Pattern("t_l6", 6, FALSE, TRUE, 2, 3) >>
          [] k = << "arc24", "bed" >> ->
               << Pattern("b_r4", 4, TRUE, TRUE, 2, 1) >>
          [] k = << "eq36lp", "trench" >> ->
               << Pattern("t_r6", 6, TRUE, TRUE, 1, 3),
                  Pattern("t_r1", 1, TRUE, TRUE, 1, 1) >>
          [] k = << "eq36lp", "bed" >> ->
               << Pattern("b_l3", 3, FALSE, TRUE, 1, 2),
                  Pattern("b_r5", 5, TRUE, TRUE, 2, 2) >> ]

\* load_all_configs: products x ['bed', 'trench'], in this order
LoadOrder ==
    << << "mps9", "bed" >>, << "mps9", "trench" >>,
       << "arc24", "bed" >>, << "arc24", "trench" >>,
       << "eq36lp", "bed" >>, << "eq36lp", "trench" >> >>

AllPatterns ==
    UNION { { CatalogFiles[k][i] : i \in 1..Len(CatalogFiles[k]) } :
            k \in Products \X BaseTypes }

Boundaries == { [ w |-> bw, h |-> bh ] : bw \in 1..MaxDim, bh \in 1..MaxDim }

\* rectangles with sides in half feet and an area below 1 sq ft
SubMinimumBoundaries ==
    { [ w |-> bw, h |-> bh, den |-> 2 ] : bw \in 1..MaxDim, bh \in 1..MaxDim } \
        { [ w |-> bw, h |-> bh, den |-> 2 ] : bw \in 2..MaxDim, bh \in 2..MaxDim }

----------------------------------------------------------------------------
(* geometry.py *)

\* 10000 * cos(5 i degrees), i = 0..18 (math.cos as shapely's rotate uses it)
CosTable == << 10000, 9962, 9848, 9659, 9397, 9063, 8660, 8192, 7660, 7071,
               6428, 5736, 5000, 4226, 3420, 2588, 1736, 872, 0 >>

\* 10000 * |cos r| for r in 0..180, a whole multiple of 5 degrees
AbsCos180(r) == IF r <= 90 THEN CosTable[(r \div 5) + 1]
                ELSE CosTable[((180 - r) \div 5) + 1]

\* 10000 * |cos a| and 10000 * |sin a| for a whole multiple of 5 degrees
AbsCos(a) == AbsCos180(a % 180)

AbsSin(a) == AbsCos180((a + 90) % 180)

\* extract_shoulder_polygon: the first closed polyline, or ValueError
\* faulty variant: every entry is taken to have a shoulder polygon
HasShoulderAlways(config) == TRUE

\* extract_shoulder_polygon returns a polygon: the entry has a closed
\* polyline (an entry without 'cad_json' has no field closed; its KeyError
\* is caught by _try_product like the ValueError)
HasShoulder(config) == IF "closed" \in DOMAIN config THEN config.closed ELSE FALSE

extract_shoulder_polygon(config) == [ w |-> config.w, h |-> config.h ]

Abs(x) == IF x < 0 THEN 0 - x ELSE x

Max2(x, y) == IF x > y THEN x ELSE y

Min2(x, y) == IF x < y THEN x ELSE y

\* A boundary [w, h] may carry two more fields.  rot: the rectangle is
\* turned by rot degrees about its first vertex (0 without the field).
\* den: its sides are w / den and h / den feet (1 without the field).
BoundaryRot(b) == IF "rot" \in DOMAIN b THEN b.rot ELSE 0

BoundaryDen(b) == IF "den" \in DOMAIN b THEN b.den ELSE 1

\* a side of the boundary in 1/10000 ft
SideLength(side, b) == (side * 10000) \div BoundaryDen(b)

\* math.degrees(math.atan2(dy, dx)) of an axis-parallel edge
Atan2Deg(dy, dx) == IF dy = 0 THEN (IF dx >= 0 THEN 0 ELSE 180)
                    ELSE (IF dy > 0 THEN 90 ELSE 0 - 90)

\* atan2 of a direction given in degrees: a value in (-180, 180]
WrapDeg(d) == ((d + 179) % 360) - 179

\* if angle_deg < 0: angle_deg += 180
NormalizeEdgeAngle(angle_deg) == IF angle_deg < 0 THEN angle_deg + 180 ELSE angle_deg

\* boundary_polygon.exterior.coords of Polygon([(0,0),(w,0),(w,h),(0,h)]),
\* before the turn by rot
ExteriorCoords(b) ==
    << << 0, 0 >>, << b.w, 0 >>, << b.w, b.h >>, << 0, b.h >>, << 0, 0 >> >>

\* (angle_deg, length, i) of the edge (dx, dy) turned by rot; the length of
\* an axis-parallel edge is |dx| + |dy|
EdgeAngle(dx, dy, i, rot) ==
    << NormalizeEdgeAngle(WrapDeg(Atan2Deg(dy, dx) + rot)), Abs(dx) + Abs(dy), i >>

EdgeAngles(coords, rot) ==
    [ i \in 1..(Len(coords) - 1) |->
        EdgeAngle(coords[i + 1][1] - coords[i][1],
                  coords[i + 1][2] - coords[i][2], i - 1, rot) ]

\* get_boundary_edge_angles: one entry for every edge of the boundary
get_boundary_edge_angles(b) == EdgeAngles(ExteriorCoords(b), BoundaryRot(b) % 360)

\* the angle of the footprint seen from the boundary's own axes
RelAngle(angle, b) == (angle + 360 - (BoundaryRot(b) % 360)) % 360

\* A positioned footprint [w, h] may carry the offset (dx, dy) of its
\* centroid from the boundary's centroid, in 1/10000 ft along the boundary's
\* axes (0 without the fields; try_rotations always centres).
OffsetX(poly) == IF "dx" \in DOMAIN poly THEN poly.dx ELSE 0

OffsetY(poly) == IF "dy" \in DOMAIN poly THEN poly.dy ELSE 0

\* The footprint rotated by `angle` about its centroid: its extent along
\* the two axes, times 10000.
ExtentX(poly, angle) == poly.w * AbsCos(angle) + poly.h * AbsSin(angle)

ExtentY(poly, angle) == poly.w * AbsSin(angle) + poly.h * AbsCos(angle)

\* positioned.within(user_boundary)
WithinSpan(extent, offset, side) == extent + 2 * Abs(offset) <= side

Within(poly, angle, b) ==
    /\ WithinSpan(ExtentX(poly, RelAngle(angle, b)), OffsetX(poly), SideLength(b.w, b))
    /\ WithinSpan(ExtentY(poly, RelAngle(angle, b)), OffsetY(poly), SideLength(b.h, b))

Overhang(extent, side) == IF extent > side THEN extent - side ELSE 0

\* difference(user_boundary).area < tolerance for a centred footprint at an
\* angle that is not cardinal, ox and oy being the total overhang along the
\* two axes (times 10000): the part outside is the corner triangles the
\* boundary's sides cut off, (ox^2 + oy^2) / (2 sin 2a).
OverhangBelowTolerance(ox, oy, angle) ==
    /\ ox <= 1000
    /\ oy <= 1000
    /\ ox * ox + oy * oy < 20 * ToleranceMilli * AbsSin(2 * angle)

\* twice the length the span of the footprint (extent, offset) has in
\* common with the span of the boundary (side)
Overlap2(extent, offset, side) ==
    Max2(0, Min2(2 * offset + extent, side) - Max2(2 * offset - extent, 0 - side))

\* difference(user_boundary).area < tolerance for a footprint at a cardinal
\* angle: four times the area outside is outx * 2 ey + ovx * outy, where
\* ovx is twice the overlap in x and outx = 2 ex - ovx (the same in y)
OutsideBelowTolerance(ovx, outx, ey, outy) ==
    /\ outx <= 100
    /\ outy <= 100
    /\ outx * 2 * ey + ovx * outy < 400000 * ToleranceMilli

CardinalBelowTolerance(ex, ey, ovx, ovy) ==
    OutsideBelowTolerance(ovx, 2 * ex - ovx, ey, 2 * ey - ovy)

\* drainfield_polygon.intersects(user_boundary): the spans meet in x and in y
Intersects(poly, angle, b) ==
    /\ ExtentX(poly, RelAngle(angle, b)) + SideLength(b.w, b) >= 2 * Abs(OffsetX(poly))
    /\ ExtentY(poly, RelAngle(angle, b)) + SideLength(b.h, b) >= 2 * Abs(OffsetY(poly))

DifferenceBelowTolerance(poly, angle, b) ==
    IF RelAngle(angle, b) % 90 = 0
    THEN CardinalBelowTolerance(
             ExtentX(poly, RelAngle(angle, b)), ExtentY(poly, RelAngle(angle, b)),
             Overlap2(ExtentX(poly, RelAngle(angle, b)), OffsetX(poly), SideLength(b.w, b)),
             Overlap2(ExtentY(poly, RelAngle(angle, b)), OffsetY(poly), SideLength(b.h, b)))
    ELSE OverhangBelowTolerance(
             Overhang(ExtentX(poly, RelAngle(angle, b)), SideLength(b.w, b)),
             Overhang(ExtentY(poly, RelAngle(angle, b)), SideLength(b.h, b)),
             RelAngle(angle, b))

\* faulty variant: any footprint that meets the boundary is accepted
polygon_fits_intersecting(poly, angle, b) ==
    Within(poly, angle, b) \/ Intersects(poly, angle, b)

\* polygon_fits(positioned, user_boundary)
polygon_fits(poly, angle, b) ==
    \/ Within(poly, angle, b)
    \/ /\ Intersects(poly, angle, b)
       /\ DifferenceBelowTolerance(poly, angle, b)

\* rotation_angles after its three updates, normalized to 0..359
WithFineTuning(base) ==
    { a % 360 : a \in base \cup { c - FineTune : c \in base }
                           \cup { c + FineTune : c \in base } }

RotationAngles(edge_angles) ==
    WithFineTuning({ edge_angles[i][1] + d : i \in DOMAIN edge_angles, d \in { 0, 90 } }
                   \cup { 0, 90, 180, 270 })

\* try_edge_aligned_rotations: the set rotation_angles
EdgeAlignedAngles(b) == RotationAngles(get_boundary_edge_angles(b))

\* for angle in <ordered angles>: the first one that fits; trials is the
\* number of passes through the loop body (of polygon_fits calls) made
RECURSIVE FirstFit(_, _, _, _)
FirstFit(angles, i, poly, b) ==
    IF i > Len(angles) THEN [ fits |-> FALSE, angle |-> 0, trials |-> Len(angles) ]
    ELSE IF polygon_fits(poly, angles[i], b)
         THEN [ fits |-> TRUE, angle |-> angles[i], trials |-> i ]
         ELSE FirstFit(angles, i + 1, poly, b)

try_edge_aligned_rotations(poly, b) ==
    FirstFit(SortedSeq(EdgeAlignedAngles(b)), 1, poly, b)

\* faulty variant: the sweep goes round twice
SweepAnglesTwice ==
    [ i \in 1..(2 * CeilDiv(360, RotationStep)) |-> ((i - 1) * RotationStep) % 360 ]

\* range(0, 360, rotation_step)
SweepAngles == [ i \in 1..CeilDiv(360, RotationStep) |-> (i - 1) * RotationStep ]

\* faulty variant: the dense sweep is run whatever the edge-aligned tier found
SweepOnly(tier1, poly, b) == FirstFit(SweepAngles, 1, poly, b)

\* the dense sweep, entered only if the edge-aligned tier found nothing
AfterTier1(tier1, sweep) == [ sweep EXCEPT !.trials = @ + tier1.trials ]

Fallback(tier1, poly, b) ==
    IF tier1.fits THEN tier1 ELSE AfterTier1(tier1, FirstFit(SweepAngles, 1, poly, b))

try_rotations(poly, b) == Fallback(try_edge_aligned_rotations(poly, b), poly, b)

\* try_rotations for every shoulder of the catalog and every boundary
Shoulders == { extract_shoulder_polygon(c) : c \in AllPatterns }

FitTable ==
    [ poly \in Shoulders, b \in Boundaries \cup SubMinimumBoundaries |->
        try_rotations(poly, b) ]

\* Python's None
None == "None"

\* polygon.is_valid: true of a rectangle; a boundary drawn with a side that
\* runs back over itself (a spike of no width: same area, not valid) carries
\* simple |-> FALSE
IsValid(b) == IF "simple" \in DOMAIN b THEN b.simple ELSE TRUE

\* polygon.area < 1.0, the sides being w/den and h/den
AreaBelowOne(b) == b.w * b.h < BoundaryDen(b) * BoundaryDen(b)

\* faulty variant: the area is checked before the validity
validate_boundary_area_first(b) ==
    IF AreaBelowOne(b)
    THEN [ valid |-> FALSE, message |-> "Boundary area is too small (< 1 sq ft)" ]
    ELSE IF ~ IsValid(b)
    THEN [ valid |-> FALSE,
           message |-> "Boundary polygon is not valid (self-intersecting or malformed)" ]
    ELSE [ valid |-> TRUE, message |-> None ]

\* validate_boundary: (is_valid, error_message)
validate_boundary(b) ==
    IF ~ IsValid(b)
    THEN [ valid |-> FALSE,
           message |-> "Boundary polygon is not valid (self-intersecting or malformed)" ]
    ELSE IF AreaBelowOne(b)
    THEN [ valid |-> FALSE, message |-> "Boundary area is too small (< 1 sq ft)" ]
    ELSE [ valid |-> TRUE, message |-> None ]

----------------------------------------------------------------------------
(* config_loader.py *)

\* get_configs: self.configs.get(key, {})
get_configs(product, base_type) ==
    IF << product, base_type >> \in DOMAIN configs
    THEN configs[<< product, base_type >>]
    ELSE << >>

\* An exception on its way to the caller, and the test for one
KeyError == [ raised |-> "KeyError" ]

Raised(r) == "raised" \in DOMAIN r

\* config_data['metadata']['credit_sqft'] raises KeyError for an entry of
\* the dict that has no 'metadata' or no 'credit_sqft' in it
FilterRaises(cfgs) ==
    \E i \in DOMAIN cfgs :
        \/ "metadata" \notin DOMAIN cfgs[i]
        \/ "credit_sqft" \notin DOMAIN cfgs[i].metadata

\* the sort key raises KeyError for a candidate without 'is_rectangular'
SortRaises(cands) ==
    \E i \in DOMAIN cands : "is_rectangular" \notin DOMAIN cands[i].metadata

\* faulty variant: no pattern is filtered out
filter_by_size_keep_all(cfgs, min_sqft) == cfgs

\* filter_by_size: the patterns with credit_sqft >= min_sqft, in dict order
filter_by_size(cfgs, min_sqft) ==
    LET Meets(c) == c.metadata.credit_sqft >= min_sqft
    IN  SelectSeq(cfgs, Meets)

\* the sort key (not is_rectangular, credit_sqft), compared as Python tuples
KeyLess(a, b) ==
    LET na == ~ a.metadata.is_rectangular
        nb == ~ b.metadata.is_rectangular
    IN  \/ (~ na) /\ nb
        \/ (na = nb) /\ a.metadata.credit_sqft < b.metadata.credit_sqft

\* sorted(candidates, key=...): Python's sort is stable
\* faulty variant: x goes in front of the elements with an equal key (unstable sort)
InsertBeforeEqual(front, x) ==
    LET k == Cardinality({ i \in 1..Len(front) : KeyLess(front[i], x) })
    IN  SubSeq(front, 1, k) \o << x >> \o SubSeq(front, k + 1, Len(front))

\* x put into the sorted list `front` behind every element whose key is not
\* greater than its own
InsertStable(front, x) ==
    LET k == Cardinality({ i \in 1..Len(front) : ~ KeyLess(x, front[i]) })
    IN  SubSeq(front, 1, k) \o << x >> \o SubSeq(front, k + 1, Len(front))

RECURSIVE sort_candidates(_)
sort_candidates(cands) ==
    IF cands = << >> THEN << >>
    ELSE InsertStable(sort_candidates(SubSeq(cands, 1, Len(cands) - 1)),
                      cands[Len(cands)])

----------------------------------------------------------------------------
(* selector.py *)

ConfigTypes == { "trench", "bed", "trench_atu", "bed_atu" }

SplitName(t) == CASE t = "trench" -> "split_trench"
                  [] t = "bed" -> "split_bed"
                  [] t = "trench_atu" -> "split_trench_atu"
                  [] t = "bed_atu" -> "split_bed_atu"

SplitTypes == { SplitName(t) : t \in ConfigTypes }

AllTypes == ConfigTypes \cup SplitTypes

\* 'trench' in config_type, 'atu' in config_type
HasTrench(t) ==
    t \in { "trench", "trench_atu", "split_trench", "split_trench_atu" }

HasAtu(t) ==
    t \in { "trench_atu", "bed_atu", "split_trench_atu", "split_bed_atu" }

\* f'no_fit_{config_type}'
NoFitReason(t) == CASE t = "trench" -> "no_fit_trench"
                    [] t = "bed" -> "no_fit_bed"
                    [] t = "trench_atu" -> "no_fit_trench_atu"
                    [] t = "bed_atu" -> "no_fit_bed_atu"
                    [] t = "split_trench" -> "no_fit_split_trench"
                    [] t = "split_bed" -> "no_fit_split_bed"
                    [] t = "split_trench_atu" -> "no_fit_split_trench_atu"
                    [] t = "split_bed_atu" -> "no_fit_split_bed_atu"

\* The largest power of two p with p <= 5 flow / 3 (flow >= 1), and whether
\* its exponent is odd: the binade of the double flow / 0.6
RECURSIVE Binade(_, _, _)
Binade(flow, p, odd) ==
    IF 6 * p <= 5 * flow THEN Binade(flow, 2 * p, ~ odd)
    ELSE [ p |-> p, odd |-> odd ]

\* Double rounding in (flow / 0.6) * 0.75.  The double 0.6 is below 0.6, so
\* flow / 0.6 is rounded up whenever 3 does not divide flow, by 2/3 or 1/3
\* of a unit in the last place.  When 5 flow / 4 is a whole number N lying a
\* binade below 5 flow / 3 and the excess was 2/3, the product is the next
\* double above N and math.ceil returns N + 1.
FloatExcess(flow, t) ==
    IF /\ ~ HasTrench(t)
       /\ HasAtu(t)
       /\ flow > 0
       /\ flow % 4 = 0
       /\ flow % 3 # 0
    THEN LET bin == Binade(flow, 1, FALSE)
         IN  IF /\ 5 * flow < 4 * bin.p
                /\ (2 * flow * (IF bin.odd THEN 2 ELSE 1)) % 3 = 1
             THEN 1 ELSE 0
    ELSE 0

\* faulty variant: the area is rounded down instead of up
calculate_required_sqft_floor(flow, t) ==
    IF HasTrench(t)
    THEN (IF HasAtu(t) THEN (15 * flow) \div 16 ELSE (5 * flow) \div 4)
    ELSE (IF HasAtu(t) THEN (5 * flow) \div 4 ELSE (5 * flow) \div 3)

\* faulty variant: the base area is rounded up before the ATU multiplier is applied
calculate_required_sqft_round_first(flow, t) ==
    IF HasAtu(t)
    THEN CeilDiv(3 * CeilDiv(5 * flow, IF HasTrench(t) THEN 4 ELSE 3), 4)
    ELSE CeilDiv(5 * flow, IF HasTrench(t) THEN 4 ELSE 3)

\* calculate_required_sqft: math.ceil of flow / 0.8 or flow / 0.6, times
\* 0.75 for the ATU types
calculate_required_sqft(flow, t) ==
    LET den1 == IF HasTrench(t) THEN 4 ELSE 3
        num == IF HasAtu(t) THEN 5 * flow * 3 ELSE 5 * flow
        den == IF HasAtu(t) THEN den1 * 4 ELSE den1
    IN  CeilDiv(num, den) + FloatExcess(flow, t)

\* One candidate of _try_product's loop: the result dictionary of a fit
FitResult(product, config_data, b, rotation_angle) ==
    [ success |-> TRUE,
      product |-> product,
      pattern_key |-> config_data.pattern_key,
      config_data |-> config_data,
      metadata |-> config_data.metadata,
      rotation |-> rotation_angle,
      \* boundary centroid - shoulder centroid, doubled
      offset_x2 |-> b.w - config_data.w,
      offset_y2 |-> b.h - config_data.h ]

\* for pattern_key, config_data in sorted_candidates: the first candidate
\* that has a shoulder polygon and fits; an entry without one is skipped
RECURSIVE TryCandidates(_, _, _, _)
TryCandidate(product, sorted_candidates, i, b, fit) ==
    IF fit.fits
    THEN FitResult(product, sorted_candidates[i], b, fit.angle)
    ELSE TryCandidates(product, sorted_candidates, i + 1, b)

TryCandidates(product, sorted_candidates, i, b) ==
    IF i > Len(sorted_candidates) THEN [ success |-> FALSE ]
    ELSE TryCandidate(product, sorted_candidates, i, b,
             IF HasShoulder(sorted_candidates[i])
             THEN FitTable[extract_shoulder_polygon(sorted_candidates[i]), b]
             ELSE [ fits |-> FALSE, angle |-> 0 ])

\* the candidates of a non-empty catalog: filtered, then sorted, then tried
TryFiltered(product, cands, b) ==
    IF cands = << >> THEN [ success |-> FALSE ]
    ELSE IF SortRaises(cands) THEN KeyError
    ELSE TryCandidates(product, sort_candidates(cands), 1, b)

TryConfigs(product, cfgs, b, req) ==
    IF cfgs = << >> THEN [ success |-> FALSE ]
    ELSE IF FilterRaises(cfgs) THEN KeyError
    ELSE TryFiltered(product, filter_by_size(cfgs, req), b)

_try_product(product, base_type, b, req) ==
    TryConfigs(product, get_configs(product, base_type), b, req)

WithFields(r, extra) ==
    [ f \in DOMAIN r \cup DOMAIN extra |-> IF f \in DOMAIN extra THEN extra[f] ELSE r[f] ]

\* faulty variant: the type fails as soon as one product has no fit
TryProductStop(i, base_type, b, req, t, r) ==
    IF Raised(r) THEN r
    ELSE IF r.success
    THEN WithFields(r, [ config_type |-> t ])
    ELSE [ success |-> FALSE, reason |-> NoFitReason(t), config_type |-> t ]

\* for product in self.product_priority: the first product with a fit
RECURSIVE TryProducts(_, _, _, _, _)
TryProduct(i, base_type, b, req, t, r) ==
    IF Raised(r) THEN r
    ELSE IF r.success
    THEN WithFields(r, [ config_type |-> t ])
    ELSE TryProducts(i + 1, base_type, b, req, t)

TryProducts(i, base_type, b, req, t) ==
    IF i > Len(product_priority)
    THEN [ success |-> FALSE, reason |-> NoFitReason(t), config_type |-> t ]
    ELSE TryProduct(i, base_type, b, req, t,
                    _try_product(product_priority[i], base_type, b, req))

select_configuration(b, req, t) ==
    TryProducts(1, IF HasTrench(t) THEN "trench" ELSE "bed", b, req, t)

\* faulty variant: the ATU types are tried before trench and bed
hierarchy_standard_atu_first == << "trench_atu", "bed_atu", "trench", "bed" >>

\* faulty variant: the bed is tried before the trench
hierarchy_standard_bed_first == << "bed", "trench", "trench_atu", "bed_atu" >>

hierarchy_standard == << "trench", "bed", "trench_atu", "bed_atu" >>

\* faulty variant: the split pass stops before bed_atu
hierarchy_split_without_bed_atu == << "trench", "bed", "trench_atu" >>

hierarchy_split == << "trench", "bed", "trench_atu", "bed_atu" >>

----------------------------------------------------------------------------
(* The inputs of the entry points *)

NoBoundary == [ w |-> 0, h |-> 0 ]

NoResult == [ success |-> FALSE ]

\* a CAD JSON without polylines
NoCad == [ polylines |-> << >> ]

NoPolygon == [ w |-> 0, h |-> 0 ]

NoSplit == [ given |-> FALSE, list |-> << >> ]

\* the boundaries offered as split fields: strips one foot wide
SplitFields == { b \in Boundaries : b.w = 1 \/ b.h = 1 }

\* split_boundaries: None, or a list of 0, 1, 2 or 3 boundaries
SplitArgs ==
    LET one == [ w |-> 1, h |-> 1 ]
    IN  { NoSplit }
        \cup { [ given |-> TRUE, list |-> << b1, b2 >> ] :
                 b1 \in SplitFields, b2 \in SplitFields }
        \cup { [ given |-> TRUE, list |-> l ] :
                 l \in { << >>, << one >>, << one, one, one >> } }

----------------------------------------------------------------------------
(* Startup: ConfigLoader.__init__ and load_all_configs *)

Init ==
    /\ configs = << >>
    /\ load_pos = 1
    /\ pc = "loading"
    /\ entry = "none"
    /\ user_boundary = NoBoundary
    /\ flow_gpd = 0
    /\ split_boundaries = NoSplit
    /\ config_type = "none"
    /\ required_sqft = 0
    /\ hpos = 0
    /\ attempted = << >>
    /\ sel_calls = << >>
    /\ candidates = << >>
    /\ drainfield_polygon = NoPolygon
    /\ fit_angle = 0
    /\ requirements = << >>
    /\ base_cad_json = NoCad
    /\ selection_result = NoResult
    /\ first_result = NoResult
    /\ result = NoResult

CallVars == << entry, user_boundary, flow_gpd, split_boundaries, config_type,
               required_sqft, hpos, attempted, sel_calls, candidates,
               drainfield_polygon, fit_angle, result >>

\* the file is read and parsed: self.configs[key] = data
LoadConfigFile ==
    /\ pc = "loading"
    /\ load_pos <= Len(LoadOrder)
    /\ configs' = configs @@ (LoadOrder[load_pos] :> CatalogFiles[LoadOrder[load_pos]])
    /\ load_pos' = load_pos + 1
    /\ UNCHANGED << pc, CallVars,
                    drainfield_polygon, fit_angle, requirements, base_cad_json,
                    selection_result, first_result >>

\* FileNotFoundError or JSONDecodeError: a warning, the key stays absent
LoadConfigMissing ==
    /\ pc = "loading"
    /\ load_pos <= Len(LoadOrder)
    /\ load_pos' = load_pos + 1
    /\ UNCHANGED << configs, pc, CallVars,
                    drainfield_polygon, fit_angle, requirements, base_cad_json,
                    selection_result, first_result >>

LoadDone ==
    /\ pc = "loading"
    /\ load_pos > Len(LoadOrder)
    /\ pc' = "idle"
    /\ UNCHANGED << configs, load_pos, CallVars,
                    drainfield_polygon, fit_angle, requirements, base_cad_json,
                    selection_result, first_result >>

----------------------------------------------------------------------------
(* select_configuration called by run_simple_test and simple_test.main *)

CallSelectConfiguration ==
    /\ pc = "idle"
    /\ \E b \in Boundaries, req \in 0..MaxReq, t \in ConfigTypes :
         /\ entry' = "select_configuration"
         /\ user_boundary' = b
         /\ required_sqft' = req
         /\ config_type' = t
         /\ sel_calls' = << << t, b, req >> >>
         /\ result' = select_configuration(b, req, t)
    /\ pc' = "done"
    /\ flow_gpd' = 0
    /\ split_boundaries' = NoSplit
    /\ hpos' = 0
    /\ attempted' = << >>
    /\ UNCHANGED << configs, load_pos, candidates, drainfield_polygon, fit_angle, requirements, base_cad_json,
                    selection_result, first_result >>

----------------------------------------------------------------------------
(* apply_hierarchy *)

CallApplyHierarchy ==
    /\ pc = "idle"
    /\ \E b \in Boundaries, flow \in 1..MaxFlow, sb \in SplitArgs :
         /\ user_boundary' = b
         /\ flow_gpd' = flow
         /\ split_boundaries' = sb
    /\ entry' = "apply_hierarchy"
    /\ pc' = "standard"
    /\ hpos' = 1
    /\ attempted' = << >>
    /\ sel_calls' = << >>
    /\ config_type' = "none"
    /\ required_sqft' = 0
    /\ result' = NoResult
    /\ UNCHANGED << configs, load_pos, candidates, drainfield_polygon, fit_angle, requirements, base_cad_json,
                    selection_result, first_result >>

\* one iteration of `for config_type, multiplier in hierarchy_standard`
StandardAttempt ==
    /\ pc = "standard"
    /\ hpos <= Len(hierarchy_standard)
    /\ LET t == hierarchy_standard[hpos]
           req == calculate_required_sqft(flow_gpd, t)
           r == select_configuration(user_boundary, req, t)
           att == Append(attempted, t)
       IN  /\ config_type' = t
           /\ required_sqft' = req
           /\ attempted' = IF Raised(r) THEN attempted ELSE att
           /\ sel_calls' = Append(sel_calls, << t, user_boundary, req >>)
           /\ IF Raised(r)
              THEN /\ result' = r
                   /\ pc' = "done"
                   /\ hpos' = hpos
              ELSE IF r.success
              THEN /\ result' = WithFields(r, [ attempted |-> att,
                                               flow_gpd |-> flow_gpd,
                                               required_sqft |-> req ])
                   /\ pc' = "done"
                   /\ hpos' = hpos
              ELSE /\ result' = result
                   /\ pc' = "standard"
                   /\ hpos' = hpos + 1
    /\ UNCHANGED << configs, load_pos, entry, user_boundary, flow_gpd,
                    split_boundaries, candidates, drainfield_polygon, fit_angle, requirements, base_cad_json,
                    selection_result, first_result >>

\* faulty variant: split_boundaries is taken as absent when it is falsy (None or [])
SplitBoundariesFalsy == ~ split_boundaries.given \/ split_boundaries.list = << >>

\* split_boundaries is None
SplitBoundariesIsNone == ~ split_boundaries.given

\* if split_boundaries is None: return needs_split
ReturnNeedsSplit ==
    /\ pc = "standard"
    /\ hpos > Len(hierarchy_standard)
    /\ SplitBoundariesIsNone
    /\ result' = [ success |-> FALSE, reason |-> "needs_split",
                   attempted |-> attempted,
                   message |-> "No configuration fits in single boundary. Please create two boundaries for split system." ]
    /\ pc' = "done"
    /\ UNCHANGED << configs, load_pos, entry, user_boundary, flow_gpd,
                    split_boundaries, config_type, required_sqft, hpos,
                    attempted, sel_calls, candidates, drainfield_polygon, fit_angle, requirements, base_cad_json,
                    selection_result, first_result >>

\* faulty variant: a list of more than two boundaries is let through
SplitCountBelowTwo == Len(split_boundaries.list) < 2

\* len(split_boundaries) != 2
SplitCountIsNotTwo == Len(split_boundaries.list) # 2

\* if len(split_boundaries) != 2: return invalid_split
ReturnInvalidSplit ==
    /\ pc = "standard"
    /\ hpos > Len(hierarchy_standard)
    /\ split_boundaries.given
    /\ SplitCountIsNotTwo
    /\ result' = [ success |-> FALSE, reason |-> "invalid_split",
                   message |-> "Split system requires exactly 2 boundaries." ]
    /\ pc' = "done"
    /\ UNCHANGED << configs, load_pos, entry, user_boundary, flow_gpd,
                    split_boundaries, config_type, required_sqft, hpos,
                    attempted, sel_calls, candidates, drainfield_polygon, fit_angle, requirements, base_cad_json,
                    selection_result, first_result >>

\* both checks passed: the split loop starts
EnterSplit ==
    /\ pc = "standard"
    /\ hpos > Len(hierarchy_standard)
    /\ split_boundaries.given
    /\ ~ SplitCountIsNotTwo
    /\ pc' = "split"
    /\ hpos' = 1
    /\ UNCHANGED << configs, load_pos, entry, user_boundary, flow_gpd,
                    split_boundaries, config_type, required_sqft,
                    attempted, sel_calls, candidates, drainfield_polygon, fit_angle, requirements, base_cad_json, selection_result, first_result, result >>

\* faulty variant: the result is appended whether or not it is a success
AppendAlways(results, r, i) ==
    Append(results, WithFields(r, [ split_index |-> i ]))

\* for i, boundary in enumerate(split_boundaries): the successful results
\* if result['success']: result['split_index'] = i; results.append(result)
AppendIfSuccess(results, r, i) ==
    IF r.success THEN Append(results, WithFields(r, [ split_index |-> i ]))
    ELSE results

RECURSIVE SplitResults(_, _, _, _)
SplitResults(list, n, req, t) ==
    IF n = 0 THEN << >>
    ELSE AppendIfSuccess(SplitResults(list, n - 1, req, t),
                         select_configuration(list[n], req, t), n - 1)

\* one of the select_configuration calls of the inner loop raises
SplitRaises(list, req, t) ==
    \E n \in DOMAIN list : Raised(select_configuration(list[n], req, t))

\* faulty variant: the half is rounded up
split_required_sqft_ceil(flow, t) == CeilDiv(calculate_required_sqft(flow, t), 2)

\* required_sqft = self.calculate_required_sqft(flow_gpd, config_type) // 2
split_required_sqft(flow, t) == calculate_required_sqft(flow, t) \div 2

\* one iteration of `for config_type, multiplier in hierarchy_split`
SplitAttempt ==
    /\ pc = "split"
    /\ hpos <= Len(hierarchy_split)
    /\ LET t == hierarchy_split[hpos]
           st == SplitName(t)
           req == split_required_sqft(flow_gpd, t)
           results == SplitResults(split_boundaries.list, Len(split_boundaries.list), req, st)
           att == Append(attempted, st)
       IN  /\ config_type' = st
           /\ required_sqft' = req
           /\ attempted' = IF SplitRaises(split_boundaries.list, req, st)
                          THEN attempted ELSE att
           /\ sel_calls' = sel_calls
                \o [ i \in 1..Len(split_boundaries.list) |->
                       << st, split_boundaries.list[i], req >> ]
           /\ IF SplitRaises(split_boundaries.list, req, st)
              THEN /\ result' = KeyError
                   /\ pc' = "done"
                   /\ hpos' = hpos
              ELSE IF Len(results) = 2
              THEN /\ result' = [ success |-> TRUE,
                                  is_split |-> TRUE,
                                  config_type |-> st,
                                  drainfield_1 |-> results[1],
                                  drainfield_2 |-> results[2],
                                  attempted |-> att,
                                  flow_gpd |-> flow_gpd,
                                  required_sqft_each |-> req ]
                   /\ pc' = "done"
                   /\ hpos' = hpos
              ELSE /\ result' = result
                   /\ pc' = "split"
                   /\ hpos' = hpos + 1
    /\ UNCHANGED << configs, load_pos, entry, user_boundary, flow_gpd,
                    split_boundaries, candidates, drainfield_polygon, fit_angle, requirements, base_cad_json,
                    selection_result, first_result >>

\* return needs_redesign
ReturnNeedsRedesign ==
    /\ pc = "split"
    /\ hpos > Len(hierarchy_split)
    /\ result' = [ success |-> FALSE, reason |-> "needs_redesign",
                   attempted |-> attempted,
                   message |-> "No configuration fits even with split system. Architect intervention required." ]
    /\ pc' = "done"
    /\ UNCHANGED << configs, load_pos, entry, user_boundary, flow_gpd,
                    split_boundaries, config_type, required_sqft, hpos,
                    attempted, sel_calls, candidates, drainfield_polygon, fit_angle, requirements, base_cad_json,
                    selection_result, first_result >>

\* The caller has the result; the locals of the call are gone and the
\* program is ready for the next call on the same catalog.
Return ==
    /\ pc = "done"
    /\ pc' = "idle"
    /\ entry' = "none"
    /\ user_boundary' = NoBoundary
    /\ flow_gpd' = 0
    /\ split_boundaries' = NoSplit
    /\ config_type' = "none"
    /\ required_sqft' = 0
    /\ hpos' = 0
    /\ attempted' = << >>
    /\ sel_calls' = << >>
    /\ result' = NoResult
    /\ UNCHANGED << configs, load_pos, candidates, drainfield_polygon, fit_angle, requirements, base_cad_json,
                    selection_result, first_result >>

Next ==
    \/ LoadConfigFile
    \/ LoadConfigMissing
    \/ LoadDone
    \/ CallSelectConfiguration
    \/ CallApplyHierarchy
    \/ StandardAttempt
    \/ ReturnNeedsSplit
    \/ ReturnInvalidSplit
    \/ EnterSplit
    \/ SplitAttempt
    \/ ReturnNeedsRedesign
    \/ Return

Spec == Init /\ [][Next]_vars

----------------------------------------------------------------------------
(* calculate_required_sqft called on its own, for every flow and type *)

InitReady ==
    /\ configs = << >>
    /\ load_pos = Len(LoadOrder) + 1
    /\ pc = "idle"
    /\ entry = "none"
    /\ user_boundary = NoBoundary
    /\ flow_gpd = 0
    /\ split_boundaries = NoSplit
    /\ config_type = "none"
    /\ required_sqft = 0
    /\ hpos = 0
    /\ attempted = << >>
    /\ sel_calls = << >>
    /\ candidates = << >>
    /\ drainfield_polygon = NoPolygon
    /\ fit_angle = 0
    /\ requirements = << >>
    /\ base_cad_json = NoCad
    /\ selection_result = NoResult
    /\ first_result = NoResult
    /\ result = NoResult

CallCalculateRequiredSqft ==
    /\ pc = "idle"
    /\ \E flow \in 0..MaxAreaFlow, t \in AllTypes :
         /\ flow_gpd' = flow
         /\ config_type' = t
         /\ result' = calculate_required_sqft(flow, t)
    /\ entry' = "calculate_required_sqft"
    /\ pc' = "done"
    /\ UNCHANGED << configs, load_pos, user_boundary, split_boundaries,
                    required_sqft, hpos, attempted, sel_calls, candidates, drainfield_polygon, fit_angle, requirements, base_cad_json,
                    selection_result, first_result >>

NextArea == CallCalculateRequiredSqft \/ Return

SpecArea == InitReady /\ [][NextArea]_vars

----------------------------------------------------------------------------
(* sort_candidates called on its own, on lists of distinct catalog entries *)

SortPool ==
    { Pattern("p1", 2, TRUE, TRUE, 1, 1),
      Pattern("p2", 1, FALSE, TRUE, 1, 1),
      Pattern("p3", 1, TRUE, TRUE, 1, 1),
      Pattern("p4", 1, TRUE, TRUE, 1, 1),
      Pattern("p5", 1, FALSE, TRUE, 1, 1) }

\* the items of a dict: no pattern_key twice
SortInputs ==
    { l \in UNION { [ 1..n -> SortPool ] : n \in 0..MaxCands } :
        \A i, j \in DOMAIN l : i # j => l[i] # l[j] }

CallSortCandidates ==
    /\ pc = "idle"
    /\ \E l \in SortInputs :
         /\ candidates' = l
         /\ result' = sort_candidates(l)
    /\ entry' = "sort_candidates"
    /\ pc' = "done"
    /\ UNCHANGED << configs, load_pos, user_boundary, flow_gpd, split_boundaries,
                    config_type, required_sqft, hpos, attempted, sel_calls,
                    drainfield_polygon, fit_angle, requirements, base_cad_json,
                    selection_result, first_result >>

\* the ranked list is ranked again
CallSortAgain ==
    /\ pc = "done"
    /\ entry = "sort_candidates"
    /\ candidates' = result
    /\ result' = sort_candidates(result)
    /\ entry' = "sort_again"
    /\ UNCHANGED << configs, load_pos, pc, user_boundary, flow_gpd,
                    split_boundaries, config_type, required_sqft, hpos,
                    attempted, sel_calls,
                    drainfield_polygon, fit_angle, requirements, base_cad_json,
                    selection_result, first_result >>

ReturnSorted ==
    /\ pc = "done"
    /\ candidates' = << >>
    /\ result' = NoResult
    /\ entry' = "none"
    /\ pc' = "idle"
    /\ UNCHANGED << configs, load_pos, user_boundary, flow_gpd, split_boundaries,
                    config_type, required_sqft, hpos, attempted, sel_calls,
                    drainfield_polygon, fit_angle, requirements, base_cad_json,
                    selection_result, first_result >>

NextSort == CallSortCandidates \/ CallSortAgain \/ ReturnSorted

SpecSort == InitReady /\ [][NextSort]_vars

----------------------------------------------------------------------------
(* The functions of geometry.py called on their own *)

\* footprints w x h feet
FitPolys == { [ w |-> pw, h |-> ph ] : pw \in 1..MaxPolyW, ph \in 1..MaxPolyH }

\* rectangles with sides in feet or half feet, unturned
FitRectangles ==
    { [ w |-> bw, h |-> bh, rot |-> 0, den |-> d ] :
        bw \in 1..MaxFitDim, bh \in 1..MaxFitDim, d \in 1..2 }

\* the boundaries given to the fit search: these rectangles, and small
\* rectangles turned by a multiple of 15 degrees
FitBoundaries ==
    FitRectangles
    \cup { [ w |-> bw, h |-> bh, rot |-> 15 * k, den |-> 1 ] :
             bw \in 1..MaxTurnedDim, bh \in 1..MaxTurnedDim, k \in 1..MaxTurn }

\* offsets of the footprint's centroid in 1/10000 ft: a sliver, a footprint
\* that touches the boundary from outside, a footprint far away
FitOffsets == (0..MaxOffset) \cup { 10000, 100000 }

FitCallVars == << configs, load_pos, flow_gpd, split_boundaries, config_type,
                  required_sqft, hpos, attempted, sel_calls, candidates,
                  requirements, base_cad_json,
                    selection_result, first_result >>

CallGetBoundaryEdgeAngles ==
    /\ pc = "idle"
    /\ \E b \in FitBoundaries :
         /\ user_boundary' = b
         /\ result' = get_boundary_edge_angles(b)
    /\ entry' = "get_boundary_edge_angles"
    /\ pc' = "done"
    /\ UNCHANGED << FitCallVars, drainfield_polygon, fit_angle >>

\* polygon_fits on a centred footprint at any multiple of 5 degrees
CallPolygonFits ==
    /\ pc = "idle"
    /\ \E poly \in FitPolys, b \in FitRectangles, k \in 0..MaxFitStep :
         /\ drainfield_polygon' = poly
         /\ user_boundary' = b
         /\ fit_angle' = 5 * k
         /\ result' = polygon_fits(poly, 5 * k, b)
    /\ entry' = "polygon_fits"
    /\ pc' = "done"
    /\ UNCHANGED FitCallVars

\* polygon_fits on a footprint that is not centred, unturned or turned by 90
CallPolygonFitsOffset ==
    /\ pc = "idle"
    /\ \E poly \in FitPolys, b \in FitRectangles, a \in { 0, 90 },
          x \in FitOffsets, y \in { 0, 100000 } :
         /\ x + y > 0
         /\ drainfield_polygon' = [ w |-> poly.w, h |-> poly.h, dx |-> x, dy |-> y ]
         /\ user_boundary' = b
         /\ fit_angle' = a
         /\ result' = polygon_fits([ w |-> poly.w, h |-> poly.h, dx |-> x, dy |-> y ], a, b)
    /\ entry' = "polygon_fits"
    /\ pc' = "done"
    /\ UNCHANGED FitCallVars

CallTryEdgeAlignedRotations ==
    /\ pc = "idle"
    /\ \E poly \in FitPolys, b \in FitBoundaries :
         /\ drainfield_polygon' = poly
         /\ user_boundary' = b
         /\ result' = try_edge_aligned_rotations(poly, b)
    /\ entry' = "try_edge_aligned_rotations"
    /\ pc' = "done"
    /\ UNCHANGED << FitCallVars, fit_angle >>

CallTryRotations ==
    /\ pc = "idle"
    /\ \E poly \in FitPolys, b \in FitBoundaries :
         /\ drainfield_polygon' = poly
         /\ user_boundary' = b
         /\ result' = try_rotations(poly, b)
    /\ entry' = "try_rotations"
    /\ pc' = "done"
    /\ UNCHANGED << FitCallVars, fit_angle >>

ReturnFit ==
    /\ pc = "done"
    /\ drainfield_polygon' = NoPolygon
    /\ fit_angle' = 0
    /\ user_boundary' = NoBoundary
    /\ result' = NoResult
    /\ entry' = "none"
    /\ pc' = "idle"
    /\ UNCHANGED FitCallVars

NextFit ==
    \/ CallGetBoundaryEdgeAngles
    \/ CallPolygonFits
    \/ CallPolygonFitsOffset
    \/ CallTryEdgeAlignedRotations
    \/ CallTryRotations
    \/ ReturnFit

SpecFit == InitReady /\ [][NextFit]_vars

----------------------------------------------------------------------------
(* drainfield_requirements.py: the table read from fdep_drainfield_configs.csv *)

config_map ==
    [ trench |-> "Trench",
      bed |-> "Bed",
      trench_atu |-> "Trench with ATU",
      bed_atu |-> "Bed with ATU",
      split_trench |-> "Trench split in half",
      split_bed |-> "Bed split in half",
      split_trench_atu |-> "Trench split in half with ATU",
      split_bed_atu |-> "Bed split in half with ATU" ]

\* the None that get_requirements returns (a record, as its rows are)
NotFound == [ found |-> FALSE ]

\* sorted(set(k[0] for k in self.requirements.keys()))
AvailableFlows(table) == { k[1] : k \in DOMAIN table }

\* the flows of `for available_flow in available_flows` that return
HigherFlows(table, flow, name) ==
    { f \in AvailableFlows(table) : f >= flow /\ << f, name >> \in DOMAIN table }

\* exact match, else the next higher flow that has the name, else the
\* highest flow
LookUp(table, flow, name) ==
    IF << flow, name >> \in DOMAIN table THEN table[<< flow, name >>]
    ELSE IF HigherFlows(table, flow, name) # {}
    THEN table[<< Min(HigherFlows(table, flow, name)), name >>]
    ELSE IF /\ AvailableFlows(table) # {}
            /\ << Max(AvailableFlows(table)), name >> \in DOMAIN table
    THEN table[<< Max(AvailableFlows(table)), name >>]
    ELSE NotFound

get_requirements(table, flow, t) ==
    IF t \in DOMAIN config_map THEN LookUp(table, flow, config_map[t]) ELSE NotFound

\* the rows a table may hold
TableFlows == { 2, MaxFlow }

TableNames == { "Trench", "Bed" }

RequirementRows ==
    { [ drainfield_size |-> s, unobstructed_area |-> 2 * s ] : s \in 1..MaxSize }

RequirementTables ==
    UNION { [ K -> RequirementRows ] : K \in SUBSET (TableFlows \X TableNames) }

----------------------------------------------------------------------------
(* main.py: the entry points of DrainFieldPlacer, with every catalog file   *)
(* loaded                                                                   *)

\* the boundaries the entry points are given: sides in whole feet, or in
\* half feet with an area below 1 sq ft
MainBoundaries == Boundaries \cup SubMinimumBoundaries

\* the polygons given to validate_boundary
ValidateInputs ==
    { [ w |-> bw, h |-> bh, den |-> d, simple |-> v ] :
        bw \in 1..MaxDim, bh \in 1..MaxDim, d \in 1..2, v \in BOOLEAN }

InitMain ==
    /\ configs = [ k \in { LoadOrder[i] : i \in DOMAIN LoadOrder } |-> CatalogFiles[k] ]
    /\ load_pos = Len(LoadOrder) + 1
    /\ pc = "idle"
    /\ entry = "none"
    /\ user_boundary = NoBoundary
    /\ flow_gpd = 0
    /\ split_boundaries = NoSplit
    /\ config_type = "none"
    /\ required_sqft = 0
    /\ hpos = 0
    /\ attempted = << >>
    /\ sel_calls = << >>
    /\ candidates = << >>
    /\ drainfield_polygon = NoPolygon
    /\ fit_angle = 0
    /\ requirements \in RequirementTables
    /\ base_cad_json = NoCad
    /\ selection_result = NoResult
    /\ first_result = NoResult
    /\ result = NoResult

CallValidateBoundary ==
    /\ pc = "idle"
    /\ \E b \in ValidateInputs :
         /\ user_boundary' = b
         /\ result' = validate_boundary(b)
    /\ entry' = "validate_boundary"
    /\ pc' = "done"
    /\ UNCHANGED FitCallVars
    /\ UNCHANGED << drainfield_polygon, fit_angle >>

\* run_simple_test: validate_boundary, then select_configuration for
\* 'trench'; None when the boundary is not valid
SimpleTest(b, req, validation) ==
    IF validation.valid
    THEN /\ config_type' = "trench"
         /\ sel_calls' = << << "trench", b, req >> >>
         /\ result' = select_configuration(b, req, "trench")
    ELSE /\ config_type' = "none"
         /\ sel_calls' = << >>
         /\ result' = None

RunSimpleTest ==
    /\ pc = "idle"
    /\ \E b \in MainBoundaries, req \in 0..MaxReq :
         /\ user_boundary' = b
         /\ required_sqft' = req
         /\ SimpleTest(b, req, validate_boundary(b))
    /\ entry' = "run_simple_test"
    /\ pc' = "done"
    /\ flow_gpd' = 0
    /\ split_boundaries' = NoSplit
    /\ hpos' = 0
    /\ attempted' = << >>
    /\ UNCHANGED << configs, load_pos, candidates, drainfield_polygon, fit_angle,
                    requirements, base_cad_json,
                    selection_result, first_result >>

\* self.selector.apply_hierarchy(user_boundary, flow_gpd): split_boundaries
\* is None
EnterHierarchy(b, flow) ==
    /\ user_boundary' = b
    /\ flow_gpd' = flow
    /\ split_boundaries' = NoSplit
    /\ pc' = "standard"
    /\ hpos' = 1
    /\ attempted' = << >>
    /\ sel_calls' = << >>
    /\ config_type' = "none"
    /\ required_sqft' = 0
    /\ result' = NoResult
    /\ UNCHANGED << configs, load_pos, candidates, drainfield_polygon, fit_angle,
                    requirements, base_cad_json,
                    selection_result, first_result >>

\* run_hierarchy_test: the rectangle goes to apply_hierarchy as it is
RunHierarchyTest ==
    /\ pc = "idle"
    /\ \E b \in MainBoundaries, flow \in 1..MaxFlow : EnterHierarchy(b, flow)
    /\ entry' = "run_hierarchy_test"

\* run_full_design, from Step 3 on: flow_gpd is the value calculate_flow
\* returned, boundary_polygon goes to apply_hierarchy as it is
RunFullDesign ==
    /\ pc = "idle"
    /\ \E b \in MainBoundaries, flow \in 1..MaxFlow : EnterHierarchy(b, flow)
    /\ entry' = "run_full_design"

\* run_full_design has its result from apply_hierarchy and has not yet
\* looked up the requirements
ReportPending ==
    /\ pc = "done"
    /\ entry = "run_full_design"
    /\ result.success
    /\ "drainfield_size_required" \notin DOMAIN result

\* Step 4: the sizes reported, from the table or else from the metadata of
\* the selected pattern (is_split is false: no split boundaries were given)
ReportedSizes(r, found) ==
    IF found # NotFound
    THEN [ drainfield_size_required |-> found.drainfield_size,
           unobstructed_area_required |-> found.unobstructed_area ]
    ELSE [ drainfield_size_required |->
               IF "credit_sqft" \in DOMAIN r.metadata THEN r.metadata.credit_sqft ELSE 0,
           unobstructed_area_required |->
               IF "unobstructed_area" \in DOMAIN r.metadata
               THEN r.metadata.unobstructed_area ELSE 0 ]

FullDesignReport ==
    /\ ReportPending
    /\ result' = WithFields(result,
                     ReportedSizes(result,
                         get_requirements(requirements, flow_gpd, result.config_type)))
    /\ UNCHANGED << configs, load_pos, pc, entry, user_boundary, flow_gpd,
                    split_boundaries, config_type, required_sqft, hpos,
                    attempted, sel_calls, candidates, drainfield_polygon, fit_angle,
                    requirements, base_cad_json,
                    selection_result, first_result >>

ReturnMain == ~ ReportPending /\ Return

NextMain ==
    \/ CallValidateBoundary
    \/ RunSimpleTest
    \/ RunHierarchyTest
    \/ RunFullDesign
    \/ StandardAttempt
    \/ ReturnNeedsSplit
    \/ FullDesignReport
    \/ ReturnMain

SpecMain == InitMain /\ [][NextMain]_vars

----------------------------------------------------------------------------
(* The selector on catalog files in which one entry lacks a key *)

Defects == { "metadata", "credit_sqft", "is_rectangular", "cad_json" }

\* the entry c without the key d
WithoutKey(c, d) ==
    CASE d = "metadata" ->
           [ pattern_key |-> c.pattern_key, closed |-> c.closed, w |-> c.w, h |-> c.h ]
      [] d = "credit_sqft" ->
           [ c EXCEPT !.metadata = [ is_rectangular |-> c.metadata.is_rectangular ] ]
      [] d = "is_rectangular" ->
           [ c EXCEPT !.metadata = [ credit_sqft |-> c.metadata.credit_sqft ] ]
      [] d = "cad_json" ->
           [ pattern_key |-> c.pattern_key, metadata |-> c.metadata ]

\* the six files, the entry i of the file k being without the key d
DefectiveCatalog(k, i, d) ==
    [ f \in DOMAIN CatalogFiles |->
        IF f = k
        THEN [ CatalogFiles[f] EXCEPT ![i] = WithoutKey(CatalogFiles[f][i], d) ]
        ELSE CatalogFiles[f] ]

DefectiveCatalogs ==
    UNION { { DefectiveCatalog(k, i, d) :
                i \in 1..Min2(MaxEntry, Len(CatalogFiles[k])), d \in Defects } :
            k \in DOMAIN CatalogFiles }

InitCatalog ==
    /\ configs \in DefectiveCatalogs
    /\ load_pos = Len(LoadOrder) + 1
    /\ pc = "idle"
    /\ entry = "none"
    /\ user_boundary = NoBoundary
    /\ flow_gpd = 0
    /\ split_boundaries = NoSplit
    /\ config_type = "none"
    /\ required_sqft = 0
    /\ hpos = 0
    /\ attempted = << >>
    /\ sel_calls = << >>
    /\ candidates = << >>
    /\ drainfield_polygon = NoPolygon
    /\ fit_angle = 0
    /\ requirements = << >>
    /\ base_cad_json = NoCad
    /\ selection_result = NoResult
    /\ first_result = NoResult
    /\ result = NoResult

\* apply_hierarchy(user_boundary, flow_gpd), without split boundaries
CallApplyHierarchySingle ==
    /\ pc = "idle"
    /\ \E b \in Boundaries, flow \in 1..MaxFlow : EnterHierarchy(b, flow)
    /\ entry' = "apply_hierarchy"

NextCatalog ==
    \/ CallSelectConfiguration
    \/ CallApplyHierarchySingle
    \/ StandardAttempt
    \/ ReturnNeedsSplit
    \/ Return

SpecCatalog == InitCatalog /\ [][NextCatalog]_vars

----------------------------------------------------------------------------
(* placer.py, and the selector's search for a pattern whose shoulder is    *)
(* any polygon.  A CAD point is [x, y] in whole feet.  A position is kept  *)
(* in 1 / Unit feet, and from a rotation on in 1 / (Unit * Turned) feet,   *)
(* Turned being the factor of CosTable: every centroid and every corner    *)
(* met below is then a whole number.                                       *)

Unit == 120

Turned == 10000

Pt(px, py) == [ x |-> px, y |-> py ]

\* 10000 cos a and 10000 sin a for a whole multiple of 5 degrees
Cos(a) == IF a % 360 <= 90 \/ a % 360 >= 270 THEN AbsCos(a) ELSE 0 - AbsCos(a)

Sin(a) == Cos(a + 270)

RECURSIVE SumTo(_, _)
SumTo(f, n) == IF n = 0 THEN 0 ELSE f[n] + SumTo(f, n - 1)

\* the vertex after the vertex i of a ring
After(points, i) == points[(i % Len(points)) + 1]

Cross(points, i) ==
    points[i].x * After(points, i).y - After(points, i).x * points[i].y

\* twice the area of Polygon(points), its vertices being counter-clockwise
TwiceArea(points) == SumTo([ i \in DOMAIN points |-> Cross(points, i) ], Len(points))

\* shapely's centroid of Polygon(points), the centre of its area, in 1/Unit ft
AreaCentroid(points) ==
    Pt((Unit * SumTo([ i \in DOMAIN points |->
                         (points[i].x + After(points, i).x) * Cross(points, i) ],
                     Len(points))) \div (3 * TwiceArea(points)),
       (Unit * SumTo([ i \in DOMAIN points |->
                         (points[i].y + After(points, i).y) * Cross(points, i) ],
                     Len(points))) \div (3 * TwiceArea(points)))

\* polyline.get('closed', False)
IsClosed(polyline) == IF "closed" \in DOMAIN polyline THEN polyline.closed ELSE FALSE

\* the first closed polyline of a list, 0 if there is none
FirstClosed(polylines) ==
    IF \E i \in DOMAIN polylines : IsClosed(polylines[i])
    THEN Min({ i \in DOMAIN polylines : IsClosed(polylines[i]) })
    ELSE 0

\* extract_shoulder_polygon of an entry that carries its cad_json: the
\* points of the first closed polyline
ShoulderPoints(config) ==
    config.cad_json.polylines[FirstClosed(config.cad_json.polylines)].points

\* user_boundary.centroid, in 1 / (Unit * Turned) ft
BoundaryCentroid(b) ==
    Pt((b.w * Unit * Turned) \div (2 * BoundaryDen(b)),
       (b.h * Unit * Turned) \div (2 * BoundaryDen(b)))

\* rotate(drainfield_polygon, angle, origin='centroid')
RotateAboutCentroid(points, angle, c) ==
    [ i \in DOMAIN points |->
        Pt((points[i].x * Unit - c.x) * Cos(angle)
             - (points[i].y * Unit - c.y) * Sin(angle) + c.x * Turned,
           (points[i].x * Unit - c.x) * Sin(angle)
             + (points[i].y * Unit - c.y) * Cos(angle) + c.y * Turned) ]

\* translate(rotated, xoff=dx, yoff=dy)
Translate(points, dx, dy) ==
    [ i \in DOMAIN points |-> Pt(points[i].x + dx, points[i].y + dy) ]

\* positioned: rotated about its centroid (which the rotation leaves where
\* it is), then moved so that the centroid is the boundary's
PositionedAbout(points, angle, b, c) ==
    Translate(RotateAboutCentroid(points, angle, c),
              BoundaryCentroid(b).x - c.x * Turned,
              BoundaryCentroid(b).y - c.y * Turned)

Positioned(points, angle, b) ==
    PositionedAbout(points, angle, b, AreaCentroid(points))

\* a side of the boundary in 1 / (Unit * Turned) ft
FineSide(side, b) == (side * Unit * Turned) \div BoundaryDen(b)

\* positioned.within(user_boundary), the boundary being a rectangle with
\* its first vertex at (0, 0) and its sides along the axes
PointsWithin(q, b) ==
    \A i \in DOMAIN q : /\ 0 <= q[i].x /\ q[i].x <= FineSide(b.w, b)
                        /\ 0 <= q[i].y /\ q[i].y <= FineSide(b.h, b)

\* how far a coordinate lies outside the span 0..side, in 1/10000 ft
Outside(coord, side) ==
    (IF coord < 0 THEN 0 - coord ELSE IF coord > side THEN coord - side ELSE 0)
        \div Unit

OutsideOf(q, b) ==
    [ i \in DOMAIN q |-> Outside(q[i].x, FineSide(b.w, b))
                           + Outside(q[i].y, FineSide(b.h, b)) ]

\* the point (c.x, c.y), in 1/Unit ft, is to the left of the edge i where
\* the edge crosses its height
CrossesRightOf(points, i, c) ==
    LET ax == points[i].x * Unit
        ay == points[i].y * Unit
        bx == After(points, i).x * Unit
        by == After(points, i).y * Unit
    IN  /\ (ay > c.y) # (by > c.y)
        /\ IF by > ay
           THEN (c.x - ax) * (by - ay) < (c.y - ay) * (bx - ax)
           ELSE (c.x - ax) * (by - ay) > (c.y - ay) * (bx - ax)

\* the polygon holds its own centroid (an odd number of its edges is
\* crossed on the way from the centroid to the right)
HoldsCentroid(points) ==
    Cardinality({ i \in DOMAIN points :
                    CrossesRightOf(points, i, AreaCentroid(points)) }) % 2 = 1

\* positioned.intersects(user_boundary): a corner of the polygon is in the
\* boundary, or its centroid, which is put on the boundary's, is its own point
PointsIntersect(points, q, b) ==
    \/ \E i \in DOMAIN q : PointsWithin(<< q[i] >>, b)
    \/ HoldsCentroid(points)

\* positioned.difference(user_boundary).area < tolerance.  At an angle that
\* is not cardinal the part outside is the right-angled corners the sides
\* of the boundary cut off, each of area d^2 / sin 2a for a corner that is
\* d outside; a corner more than 0.05 ft outside has more than the
\* tolerance outside.  At a cardinal angle the part outside is a strip at
\* least 1 / Unit ft wide along an edge of a foot or more.
CornersBelowTolerance(out, angle) ==
    /\ \A i \in DOMAIN out : out[i] <= 500
    /\ SumTo([ i \in DOMAIN out |-> out[i] * out[i] ], Len(out))
         < 10 * ToleranceMilli * AbsSin(2 * angle)

PointsBelowTolerance(q, angle, b) == CornersBelowTolerance(OutsideOf(q, b), angle)

\* polygon_fits(positioned, user_boundary) for a polygon given by its points
FitsPositioned(points, q, angle, b) ==
    \/ PointsWithin(q, b)
    \/ /\ PointsIntersect(points, q, b)
       /\ PointsBelowTolerance(q, angle, b)

PointsFit(points, angle, b) ==
    FitsPositioned(points, Positioned(points, angle, b), angle, b)

\* for angle in <ordered angles>: the first angle at which the polygon fits
RECURSIVE PointsFirstFit(_, _, _, _)
PointsFirstFit(angles, i, points, b) ==
    IF i > Len(angles) THEN [ fits |-> FALSE, angle |-> 0 ]
    ELSE IF PointsFit(points, angles[i], b)
         THEN [ fits |-> TRUE, angle |-> angles[i] ]
         ELSE PointsFirstFit(angles, i + 1, points, b)

\* try_rotations(shoulder_polygon, user_boundary): the edge-aligned angles
\* in ascending order, then the sweep
PointsTryRotations(points, b) ==
    PointsFirstFit(SortedSeq(EdgeAlignedAngles(b)) \o SweepAngles, 1, points, b)

\* the body of _try_product's loop for one candidate: the result dictionary
\* of a fit, {'success': False} if the candidate is the last and has none
PointsFitResult(product, config_data, b, fit) ==
    IF fit.fits
    THEN [ success |-> TRUE,
           product |-> product,
           pattern_key |-> config_data.pattern_key,
           config_data |-> config_data,
           metadata |-> config_data.metadata,
           rotation |-> fit.angle,
           offset_x |-> BoundaryCentroid(b).x
                          - AreaCentroid(ShoulderPoints(config_data)).x * Turned,
           offset_y |-> BoundaryCentroid(b).y
                          - AreaCentroid(ShoulderPoints(config_data)).y * Turned,
           fitted_polygon |-> Positioned(ShoulderPoints(config_data), fit.angle, b) ]
    ELSE [ success |-> FALSE ]

\* calculate_polygon_centroid: the average of the vertices, in 1/Unit ft
calculate_polygon_centroid(points) ==
    IF Len(points) = 0 THEN Pt(0, 0)
    ELSE Pt((Unit * SumTo([ i \in DOMAIN points |-> points[i].x ], Len(points)))
               \div Len(points),
            (Unit * SumTo([ i \in DOMAIN points |-> points[i].y ], Len(points)))
               \div Len(points))

\* rotate_point(point, angle_deg, origin_x, origin_y)
rotate_point(point, angle_deg, origin) ==
    Pt((point.x * Unit - origin.x) * Cos(angle_deg)
         - (point.y * Unit - origin.y) * Sin(angle_deg) + origin.x * Turned,
       (point.x * Unit - origin.x) * Sin(angle_deg)
         + (point.y * Unit - origin.y) * Cos(angle_deg) + origin.y * Turned)

\* translate_point(point, dx, dy)
translate_point(point, dx, dy) == Pt(point.x + dx, point.y + dy)

\* transform_polyline: a deep copy of the polyline, rotated if the rotation
\* is not 0, then translated
transform_polyline(polyline, rotation, origin, dx, dy) ==
    [ polyline EXCEPT !.points =
        [ i \in DOMAIN @ |->
            translate_point(IF rotation # 0
                            THEN rotate_point(@[i], rotation, origin)
                            ELSE Pt(@[i].x * Unit * Turned, @[i].y * Unit * Turned),
                            dx, dy) ] ]

\* the polylines of a catalog entry: its cad_json, or for an entry given
\* by the sides of its shoulder the one polyline that goes round it
RectPoints(w, h) == << Pt(0, 0), Pt(w, 0), Pt(w, h), Pt(0, h) >>

CadPolylines(config_data) ==
    IF "cad_json" \in DOMAIN config_data
    THEN config_data.cad_json.polylines
    ELSE << [ closed |-> config_data.closed,
              points |-> RectPoints(config_data.w, config_data.h) ] >>

\* selection_result['offset_x'] and ['offset_y'], in 1 / (Unit * Turned) ft
OffsetX1(sel) == IF "offset_x" \in DOMAIN sel THEN sel.offset_x
                 ELSE (sel.offset_x2 * Unit * Turned) \div 2

OffsetY1(sel) == IF "offset_y" \in DOMAIN sel THEN sel.offset_y
                 ELSE (sel.offset_y2 * Unit * Turned) \div 2

\* the rotation origin place_drainfield takes
RotationOrigin(polylines) ==
    IF FirstClosed(polylines) # 0
    THEN calculate_polygon_centroid(polylines[FirstClosed(polylines)].points)
    ELSE Pt(0, 0)

\* transformed['metadata'] = {...}
PlacementMetadata(sel, polyline) ==
    [ source |-> "drainfield_placer",
      product |-> sel.product,
      pattern |-> sel.pattern_key,
      rotation |-> sel.rotation,
      is_shoulder |-> IsClosed(polyline) ]

\* the polylines place_drainfield appends: every polyline of the pattern,
\* transformed and marked
PlacedPolylines(sel, polylines) ==
    [ i \in DOMAIN polylines |->
        WithFields(transform_polyline(polylines[i], sel.rotation,
                                      RotationOrigin(polylines),
                                      OffsetX1(sel), OffsetY1(sel)),
                   [ metadata |-> PlacementMetadata(sel, polylines[i]) ]) ]

\* output_cad = copy.deepcopy(base_cad_json), with a polylines array
OutputCad(base) ==
    IF "polylines" \in DOMAIN base THEN base
    ELSE WithFields(base, [ polylines |-> << >> ])

\* place_drainfield(base_cad_json, selection_result): what it returns
place_drainfield(base, sel) ==
    [ OutputCad(base) EXCEPT
        !.polylines = @ \o PlacedPolylines(sel, CadPolylines(sel.config_data)) ]

\* place_split_drainfield(base_cad_json, selection_result): what it returns
place_split_drainfield(base, sel) ==
    place_drainfield(place_drainfield(base, sel.drainfield_1), sel.drainfield_2)

----------------------------------------------------------------------------
(* The placement of one catalog entry: the selector's search for the      *)
(* entry in a boundary, then place_drainfield with the result.            *)

MaxPlaceW == 12     \* boundaries of a placement: MinPlaceW..MaxPlaceW wide
MaxPlaceH == 20     \*   and MinPlaceH..MaxPlaceH long, in quarter feet

MinPlaceW == 9

MinPlaceH == 17

LPoints(w, h) == << Pt(0, 0), Pt(w, 0), Pt(w, 1), Pt(1, 1), Pt(1, h), Pt(0, h) >>

\* an entry with a lateral line and a shoulder
PlacePattern(k, credit, rect, shoulder) ==
    [ pattern_key |-> k,
      metadata |-> [ credit_sqft |-> credit, is_rectangular |-> rect ],
      cad_json |-> [ polylines |->
          << [ points |-> << Pt(0, 0), Pt(1, 0) >> ],
             [ closed |-> TRUE, points |-> shoulder ] >> ] ]

\* a catalog of one file: two rectangular shoulders, two L-shaped ones
PlaceCatalog ==
    [ k \in { << "mps9", "trench" >> } |->
        << PlacePattern("p_r21", 2, TRUE, RectPoints(2, 1)),
           PlacePattern("p_r42", 8, TRUE, RectPoints(4, 2)),
           PlacePattern("p_l22", 3, FALSE, LPoints(2, 2)),
           PlacePattern("p_l42", 5, FALSE, LPoints(4, 2)) >> ]

PlaceBoundaries ==
    { [ w |-> bw, h |-> bh, den |-> 4 ] :
        bw \in MinPlaceW..MaxPlaceW, bh \in MinPlaceH..MaxPlaceH }

PlaceEntries ==
    UNION { { PlaceCatalog[k][i] : i \in DOMAIN PlaceCatalog[k] } :
            k \in DOMAIN PlaceCatalog }

\* try_rotations for the shoulder of every entry in every boundary
PlaceFitTable ==
    [ c \in PlaceEntries, b \in PlaceBoundaries |->
        PointsTryRotations(ShoulderPoints(c), b) ]

\* one candidate of _try_product's loop: an entry without a closed polyline
\* is skipped
TryPattern(product, config_data, b) ==
    IF FirstClosed(config_data.cad_json.polylines) = 0
    THEN [ success |-> FALSE ]
    ELSE PointsFitResult(product, config_data, b, PlaceFitTable[config_data, b])

\* the caller's CAD JSON: with the boundary polyline, or without polylines
BaseCads ==
    { [ polylines |-> << [ layer |-> "polyline_boundary", closed |-> TRUE,
                           points |-> RectPoints(1, 1) ] >> ],
      [ layers |-> << "polyline_boundary" >> ] }

InitPlace ==
    /\ configs = PlaceCatalog
    /\ load_pos = Len(LoadOrder) + 1
    /\ pc = "idle"
    /\ entry = "none"
    /\ user_boundary = NoBoundary
    /\ flow_gpd = 0
    /\ split_boundaries = NoSplit
    /\ config_type = "none"
    /\ required_sqft = 0
    /\ hpos = 0
    /\ attempted = << >>
    /\ sel_calls = << >>
    /\ candidates = << >>
    /\ drainfield_polygon = NoPolygon
    /\ fit_angle = 0
    /\ requirements = << >>
    /\ base_cad_json \in BaseCads
    /\ selection_result = NoResult
    /\ first_result = NoResult
    /\ result = NoResult

PlaceVars == << configs, load_pos, flow_gpd, split_boundaries, config_type,
                required_sqft, hpos, attempted, sel_calls, candidates,
                drainfield_polygon, fit_angle, requirements >>

\* the search of _try_product for one entry of the catalog
CallTryPattern ==
    /\ pc = "idle"
    /\ \E k \in DOMAIN configs, b \in PlaceBoundaries :
         \E i \in DOMAIN configs[k] :
            /\ user_boundary' = b
            /\ result' = TryPattern(k[1], configs[k][i], b)
    /\ entry' = "_try_product"
    /\ pc' = "done"
    /\ UNCHANGED << PlaceVars, base_cad_json, selection_result, first_result >>

\* faulty variant: there is no deep copy, the call writes to the original
WrittenThrough(original, written) == written

\* what an object holds after a call wrote to a deep copy of it
AfterDeepCopy(original, written) == original

SelectorEntries == { "_try_product", "select_configuration", "apply_hierarchy" }

IsSplit(r) == IF "is_split" \in DOMAIN r THEN r.is_split ELSE FALSE

\* place_drainfield(base_cad_json, result) after a success with one field
CallPlaceDrainfield ==
    /\ pc = "done"
    /\ entry \in SelectorEntries
    /\ result.success
    /\ ~ IsSplit(result)
    /\ selection_result' = result
    /\ first_result' = NoResult
    /\ result' = place_drainfield(base_cad_json, result)
    /\ base_cad_json' = AfterDeepCopy(base_cad_json,
                                      place_drainfield(base_cad_json, result))
    /\ entry' = "place_drainfield"
    /\ UNCHANGED << PlaceVars, pc, user_boundary >>

ReturnPlace ==
    /\ pc = "done"
    /\ pc' = "idle"
    /\ entry' = "none"
    /\ user_boundary' = NoBoundary
    /\ selection_result' = NoResult
    /\ result' = NoResult
    /\ UNCHANGED << PlaceVars, base_cad_json, first_result >>

NextPlace == CallTryPattern \/ CallPlaceDrainfield \/ ReturnPlace

SpecPlace == InitPlace /\ [][NextPlace]_vars

----------------------------------------------------------------------------
(* The entry points called twice with the same arguments, and the         *)
(* placement of what apply_hierarchy and select_configuration return.     *)

\* load_all_configs found the six files, or arc24_bed.json alone
FrameCatalogs ==
    { CatalogFiles, [ k \in { << "arc24", "bed" >> } |-> CatalogFiles[k] ] }

InitFrame ==
    /\ configs \in FrameCatalogs
    /\ load_pos = Len(LoadOrder) + 1
    /\ pc = "idle"
    /\ entry = "none"
    /\ user_boundary = NoBoundary
    /\ flow_gpd = 0
    /\ split_boundaries = NoSplit
    /\ config_type = "none"
    /\ required_sqft = 0
    /\ hpos = 0
    /\ attempted = << >>
    /\ sel_calls = << >>
    /\ candidates = << >>
    /\ drainfield_polygon = NoPolygon
    /\ fit_angle = 0
    /\ requirements = << >>
    /\ base_cad_json \in BaseCads
    /\ selection_result = NoResult
    /\ first_result = NoResult
    /\ result = NoResult

\* select_configuration is called again with the arguments of the call
\* that has just returned
CallSelectConfigurationAgain ==
    /\ pc = "done"
    /\ entry = "select_configuration"
    /\ first_result = NoResult
    /\ first_result' = result
    /\ result' = select_configuration(user_boundary, required_sqft, config_type)
    /\ UNCHANGED << configs, load_pos, pc, entry, user_boundary, flow_gpd,
                    split_boundaries, config_type, required_sqft, hpos,
                    attempted, sel_calls, candidates, drainfield_polygon,
                    fit_angle, requirements, base_cad_json, selection_result >>

\* apply_hierarchy is called again with the arguments of the call that has
\* just returned
CallApplyHierarchyAgain ==
    /\ pc = "done"
    /\ entry = "apply_hierarchy"
    /\ first_result = NoResult
    /\ first_result' = result
    /\ pc' = "standard"
    /\ hpos' = 1
    /\ attempted' = << >>
    /\ sel_calls' = << >>
    /\ config_type' = "none"
    /\ required_sqft' = 0
    /\ result' = NoResult
    /\ UNCHANGED << configs, load_pos, entry, user_boundary, flow_gpd,
                    split_boundaries, candidates, drainfield_polygon, fit_angle,
                    requirements, base_cad_json, selection_result >>

\* place_split_drainfield(base_cad_json, result) after a split success
CallPlaceSplitDrainfield ==
    /\ pc = "done"
    /\ entry \in SelectorEntries
    /\ result.success
    /\ IsSplit(result)
    /\ selection_result' = result
    /\ first_result' = NoResult
    /\ result' = place_split_drainfield(base_cad_json, result)
    /\ base_cad_json' = AfterDeepCopy(base_cad_json,
                                      place_split_drainfield(base_cad_json, result))
    /\ entry' = "place_split_drainfield"
    /\ UNCHANGED << PlaceVars, pc, user_boundary >>

\* the placement is made again with the same two arguments
CallPlaceAgain ==
    /\ pc = "done"
    /\ entry \in { "place_drainfield", "place_split_drainfield" }
    /\ first_result = NoResult
    /\ first_result' = result
    /\ LET output == IF entry = "place_drainfield"
                     THEN place_drainfield(base_cad_json, selection_result)
                     ELSE place_split_drainfield(base_cad_json, selection_result)
       IN  /\ result' = output
           /\ base_cad_json' = AfterDeepCopy(base_cad_json, output)
    /\ UNCHANGED << PlaceVars, pc, entry, user_boundary, selection_result >>

\* the caller has what it asked for; the caller's CAD JSON stays with it
ReturnFrame ==
    /\ pc = "done"
    /\ pc' = "idle"
    /\ entry' = "none"
    /\ user_boundary' = NoBoundary
    /\ flow_gpd' = 0
    /\ split_boundaries' = NoSplit
    /\ config_type' = "none"
    /\ required_sqft' = 0
    /\ hpos' = 0
    /\ attempted' = << >>
    /\ sel_calls' = << >>
    /\ selection_result' = NoResult
    /\ first_result' = NoResult
    /\ result' = NoResult
    /\ UNCHANGED << configs, load_pos, candidates, drainfield_polygon, fit_angle,
                    requirements, base_cad_json >>

NextFrame ==
    \/ CallSelectConfiguration
    \/ CallApplyHierarchy
    \/ StandardAttempt
    \/ ReturnNeedsSplit
    \/ ReturnInvalidSplit
    \/ EnterSplit
    \/ SplitAttempt
    \/ ReturnNeedsRedesign
    \/ CallSelectConfigurationAgain
    \/ CallApplyHierarchyAgain
    \/ CallPlaceDrainfield
    \/ CallPlaceSplitDrainfield
    \/ CallPlaceAgain
    \/ ReturnFrame

SpecFrame == InitFrame /\ [][NextFrame]_vars

----------------------------------------------------------------------------
(* Properties *)

\* r = ceil(num / den)
IsCeilOf(r, num, den) == den * r >= num /\ den * (r - 1) < num

AreaReturned == pc = "done" /\ entry = "calculate_required_sqft"

\* C9: calculate_required_sqft(flow, trench) is ceil(flow / 0.8) = ceil(5 flow / 4)
\* and calculate_required_sqft(flow, bed) is ceil(flow / 0.6) = ceil(5 flow / 3),
\* for every flow >= 0; for flow = 1000 it returns 1250 (trench), 1667 (bed)
\* and 938 (trench_atu).
C9_RequiredAreaIsCeiling ==
    AreaReturned =>
        /\ config_type = "trench" => IsCeilOf(result, 5 * flow_gpd, 4)
        /\ config_type = "bed" => IsCeilOf(result, 5 * flow_gpd, 3)
        /\ (flow_gpd = 1000 /\ config_type = "trench") => result = 1250
        /\ (flow_gpd = 1000 /\ config_type = "bed") => result = 1667
        /\ (flow_gpd = 1000 /\ config_type = "trench_atu") => result = 938

C9_Witness ==
    AreaReturned /\ flow_gpd = 1000 /\ config_type = "bed" /\ result = 1667

\* C10 as claimed: the ATU area is ceil(0.75 * the rounded-up non-ATU area)
C10_AtuOfRoundedArea ==
    AreaReturned =>
        /\ config_type = "trench_atu" =>
             IsCeilOf(result, 3 * calculate_required_sqft(flow_gpd, "trench"), 4)
        /\ config_type = "bed_atu" =>
             IsCeilOf(result, 3 * calculate_required_sqft(flow_gpd, "bed"), 4)

\* C10 amended: the 0.75 multiplier is applied to the unrounded base area and
\* the product is rounded up once.  trench_atu is ceil(0.75 * flow / 0.8) =
\* ceil(15 flow / 16).  bed_atu is ceil(0.75 * flow / 0.6) = ceil(5 flow / 4),
\* or one more than that for some flows that 4 divides and 3 does not (the
\* double product lands above the whole number).  Either is at most
\* ceil(0.75 * the rounded-up non-ATU area) and at most 1 below it.
C10_AtuOfUnroundedArea ==
    AreaReturned =>
        /\ config_type = "trench_atu" =>
             /\ IsCeilOf(result, 15 * flow_gpd, 16)
             /\ \/ IsCeilOf(result, 3 * calculate_required_sqft(flow_gpd, "trench"), 4)
                \/ IsCeilOf(result + 1, 3 * calculate_required_sqft(flow_gpd, "trench"), 4)
        /\ config_type = "bed_atu" =>
             /\ \/ IsCeilOf(result, 5 * flow_gpd, 4)
                \/ /\ IsCeilOf(result - 1, 5 * flow_gpd, 4)
                   /\ flow_gpd % 4 = 0
                   /\ flow_gpd % 3 # 0
             /\ \/ IsCeilOf(result, 3 * calculate_required_sqft(flow_gpd, "bed"), 4)
                \/ IsCeilOf(result + 1, 3 * calculate_required_sqft(flow_gpd, "bed"), 4)

\* flow 44: 44 / 0.6 * 0.75 is 55.00000000000001 and the result is 56
C10_Witness ==
    AreaReturned /\ flow_gpd = 44 /\ config_type = "bed_atu" /\ result = 56

----------------------------------------------------------------------------

IsRect(c) == c.metadata.is_rectangular

Credit(c) == c.metadata.credit_sqft

\* the position of an entry in a list of distinct entries
IndexIn(l, c) == CHOOSE i \in DOMAIN l : l[i] = c

\* C8: sort_candidates returns a permutation of its input; every rectangular
\* pattern precedes every non-rectangular one; patterns of one shape class
\* are in ascending credit_sqft; patterns with equal keys keep their input
\* order; sorting the output again returns the same list.
C8_SortCandidates ==
    /\ (pc = "done" /\ entry = "sort_candidates") =>
         /\ Len(result) = Len(candidates)
         /\ { result[i] : i \in DOMAIN result }
              = { candidates[i] : i \in DOMAIN candidates }
         /\ \A i, j \in DOMAIN result :
              i < j =>
                /\ IsRect(result[j]) => IsRect(result[i])
                /\ IsRect(result[i]) = IsRect(result[j])
                     => Credit(result[i]) <= Credit(result[j])
                /\ (/\ IsRect(result[i]) = IsRect(result[j])
                    /\ Credit(result[i]) = Credit(result[j]))
                     => IndexIn(candidates, result[i]) < IndexIn(candidates, result[j])
    /\ (pc = "done" /\ entry = "sort_again") => result = candidates

\* an input with a non-rectangular entry in front of a rectangular one and
\* two entries of equal key, ranked and ranked again
C8_Witness ==
    /\ pc = "done"
    /\ entry = "sort_again"
    /\ Len(result) = MaxCands
    /\ \E i, j \in DOMAIN result :
         /\ i < j
         /\ IsRect(result[i]) = IsRect(result[j])
         /\ Credit(result[i]) = Credit(result[j])
    /\ \E i, j \in DOMAIN result : IsRect(result[i]) /\ ~ IsRect(result[j])

----------------------------------------------------------------------------
(* What a fit is, said without the loops of the search *)

\* every angle try_rotations can pass to polygon_fits
TriedAngles(b) == EdgeAlignedAngles(b) \cup { SweepAngles[i] : i \in DOMAIN SweepAngles }

CanPlace ==
    [ poly \in Shoulders, b \in Boundaries |->
        \E a \in TriedAngles(b) : polygon_fits(poly, a, b) ]

\* a catalog entry that has the credit, has a footprint and can be placed
Eligible(c, b, req) ==
    /\ c.metadata.credit_sqft >= req
    /\ c.closed
    /\ CanPlace[[ w |-> c.w, h |-> c.h ], b]

BaseOf(t) == IF HasTrench(t) THEN "trench" ELSE "bed"

Loaded(product, base) ==
    IF << product, base >> \in DOMAIN configs THEN configs[<< product, base >>] ELSE << >>

\* some loaded pattern of the type's class is eligible on the boundary
TypeSucceeds(b, req, t) ==
    \E p \in { "mps9", "arc24", "eq36lp" } :
        \E i \in DOMAIN Loaded(p, BaseOf(t)) : Eligible(Loaded(p, BaseOf(t))[i], b, req)

SingleOrder == << "trench", "bed", "trench_atu", "bed_atu" >>

SingleSuccess ==
    /\ pc = "done"
    /\ entry = "apply_hierarchy"
    /\ result.success
    /\ "is_split" \notin DOMAIN result

SingleSucceeds(i) ==
    TypeSucceeds(user_boundary, calculate_required_sqft(flow_gpd, SingleOrder[i]), SingleOrder[i])

\* C1: apply_hierarchy attempts trench, bed, trench_atu, bed_atu in this
\* order; a single-boundary success is the first type of that order for
\* which a placement exists, every type before it in 'attempted' had failed
\* on the boundary, and select_configuration was called once per attempted
\* type and never after the success; a call that did not end in a
\* single-boundary success had all four types fail.
C1_SingleOrderFirstSuccess ==
    entry = "apply_hierarchy" =>
        /\ \A i \in 1..Len(attempted) : i <= 4 => attempted[i] = SingleOrder[i]
        /\ SingleSuccess =>
              /\ Len(attempted) \in 1..4
              /\ result.attempted = attempted
              /\ result.config_type = SingleOrder[Len(attempted)]
              /\ SingleSucceeds(Len(attempted))
              /\ \A i \in 1..(Len(attempted) - 1) : ~ SingleSucceeds(i)
              /\ Len(sel_calls) = Len(attempted)
              /\ \A i \in 1..Len(attempted) :
                    sel_calls[i] = << SingleOrder[i], user_boundary,
                                      calculate_required_sqft(flow_gpd, SingleOrder[i]) >>
        /\ (pc = "done" /\ ~ SingleSuccess) => \A i \in 1..4 : ~ SingleSucceeds(i)

\* trench and bed failed, trench_atu succeeded, bed_atu was never tried
C1_Witness ==
    /\ SingleSuccess
    /\ attempted = << "trench", "bed", "trench_atu" >>
    /\ result.config_type = "trench_atu"
    /\ Len(sel_calls) = 3

SplitSuccess ==
    /\ pc = "done"
    /\ entry = "apply_hierarchy"
    /\ result.success
    /\ "is_split" \in DOMAIN result

SplitReq(i) == calculate_required_sqft(flow_gpd, SingleOrder[i]) \div 2

\* a placement exists for split type number i on split boundary number j
FieldSucceeds(i, j) ==
    TypeSucceeds(split_boundaries.list[j], SplitReq(i), SingleOrder[i])

BothSucceed(i) == FieldSucceeds(i, 1) /\ FieldSucceeds(i, 2)

\* the placement d is one for boundary b: the pattern is a loaded one of the
\* product it names, is eligible, and fits at the rotation it names
PlacementFor(d, b, req, t) ==
    /\ d.success
    /\ d.config_type = t
    /\ \E i \in DOMAIN Loaded(d.product, BaseOf(t)) :
          Loaded(d.product, BaseOf(t))[i] = d.config_data
    /\ d.pattern_key = d.config_data.pattern_key
    /\ Eligible(d.config_data, b, req)
    /\ polygon_fits([ w |-> d.config_data.w, h |-> d.config_data.h ], d.rotation, b)

SplitNames == << "split_trench", "split_bed", "split_trench_atu", "split_bed_atu" >>

\* C2: in the two-boundary pass a split type succeeds iff a placement exists
\* on both boundaries; the returned type is the first of split_trench,
\* split_bed, split_trench_atu, split_bed_atu for which that holds, every
\* split type attempted before it lacked a placement on at least one
\* boundary, and drainfield_1 and drainfield_2 are placements for boundary 0
\* and boundary 1.
C2_SplitNeedsBothBoundaries ==
    entry = "apply_hierarchy" =>
        /\ \A i \in 5..Len(attempted) :
              /\ attempted[i] = SplitNames[i - 4]
              /\ Len(split_boundaries.list) = 2
              /\ BothSucceed(i - 4) <=> (SplitSuccess /\ i = Len(attempted))
        /\ SplitSuccess =>
              /\ Len(attempted) \in 5..8
              /\ result.config_type = SplitNames[Len(attempted) - 4]
              /\ result.drainfield_1.split_index = 0
              /\ result.drainfield_2.split_index = 1
              /\ PlacementFor(result.drainfield_1, split_boundaries.list[1],
                              SplitReq(Len(attempted) - 4), result.config_type)
              /\ PlacementFor(result.drainfield_2, split_boundaries.list[2],
                              SplitReq(Len(attempted) - 4), result.config_type)

\* split_trench had a placement on one boundary only and was skipped;
\* split_bed succeeded with two placements of different rotation
C2_Witness ==
    /\ SplitSuccess
    /\ result.config_type = "split_bed"
    /\ FieldSucceeds(1, 1) # FieldSucceeds(1, 2)
    /\ result.drainfield_1.rotation # result.drainfield_2.rotation

Failure(reason) ==
    /\ pc = "done"
    /\ entry = "apply_hierarchy"
    /\ ~ result.success
    /\ result.reason = reason

AllSingleFail == \A i \in 1..4 : ~ SingleSucceeds(i)

\* C3: apply_hierarchy returns needs_split exactly when all four
\* single-boundary types fail and no split boundaries were supplied, and
\* then attempted is [trench, bed, trench_atu, bed_atu].
C3_NeedsSplit ==
    (pc = "done" /\ entry = "apply_hierarchy") =>
        /\ Failure("needs_split") <=>
              (AllSingleFail /\ ~ split_boundaries.given)
        /\ Failure("needs_split") =>
              /\ result.attempted = << "trench", "bed", "trench_atu", "bed_atu" >>
              /\ attempted = result.attempted
              /\ Len(sel_calls) = 4

\* needs_split on a boundary where the catalog has patterns for both
\* classes, none of them placeable with the required credit
C3_Witness ==
    /\ Failure("needs_split")
    /\ DOMAIN configs = { LoadOrder[i] : i \in DOMAIN LoadOrder }
    /\ ~ split_boundaries.given
    /\ result.attempted = << "trench", "bed", "trench_atu", "bed_atu" >>

AllSplitFail == \A i \in 1..4 : ~ BothSucceed(i)

\* C4: apply_hierarchy returns needs_redesign exactly when two split
\* boundaries were supplied and all four single-boundary types and all four
\* split types fail; attempted then lists the eight types in order and
\* select_configuration was called for each single type and for both
\* boundaries of each split type.
C4_NeedsRedesign ==
    (pc = "done" /\ entry = "apply_hierarchy") =>
        /\ Failure("needs_redesign") <=>
              /\ split_boundaries.given
              /\ Len(split_boundaries.list) = 2
              /\ AllSingleFail
              /\ AllSplitFail
        /\ Failure("needs_redesign") =>
              /\ result.attempted = << "trench", "bed", "trench_atu", "bed_atu",
                                       "split_trench", "split_bed",
                                       "split_trench_atu", "split_bed_atu" >>
              /\ attempted = result.attempted
              /\ Len(sel_calls) = 12

\* needs_redesign although some split type had a placement on one of the
\* two boundaries
C4_Witness ==
    /\ Failure("needs_redesign")
    /\ Len(result.attempted) = 8
    /\ \E i \in 1..4 : FieldSucceeds(i, 1) # FieldSucceeds(i, 2)

\* C5: every result apply_hierarchy returns, success or failure, whatever
\* the reason, carries an 'attempted' list holding in order every
\* configuration type attempted during the call.
C5_EveryResultCarriesAttempted ==
    (pc = "done" /\ entry = "apply_hierarchy") =>
        /\ "attempted" \in DOMAIN result
        /\ result.attempted = attempted

PriorityRank(p) == CASE p = "mps9" -> 1 [] p = "arc24" -> 2 [] p = "eq36lp" -> 3

\* position of the pattern c in the catalog list l
FileIndex(l, c) == CHOOSE i \in DOMAIN l : l[i] = c

\* c comes before d in the ranked candidate list of the catalog list l:
\* rectangular first, then the smaller credit, then the file order
RankedBefore(l, c, d) ==
    \/ c.metadata.is_rectangular /\ ~ d.metadata.is_rectangular
    \/ /\ c.metadata.is_rectangular = d.metadata.is_rectangular
       /\ \/ c.metadata.credit_sqft < d.metadata.credit_sqft
          \/ /\ c.metadata.credit_sqft = d.metadata.credit_sqft
             /\ FileIndex(l, c) < FileIndex(l, d)

SelectReturned == pc = "done" /\ entry = "select_configuration"

\* the result r names the first eligible pair for boundary b, area req and
\* class base
FirstEligiblePair(r, b, req, base) ==
    /\ r.product \in { "mps9", "arc24", "eq36lp" }
    /\ \E i \in DOMAIN Loaded(r.product, base) : Loaded(r.product, base)[i] = r.config_data
    /\ Eligible(r.config_data, b, req)
    /\ polygon_fits([ w |-> r.config_data.w, h |-> r.config_data.h ], r.rotation, b)
    /\ \A q \in { "mps9", "arc24", "eq36lp" } :
          PriorityRank(q) < PriorityRank(r.product) =>
              \A i \in DOMAIN Loaded(q, base) : ~ Eligible(Loaded(q, base)[i], b, req)
    /\ \A i \in DOMAIN Loaded(r.product, base) :
          RankedBefore(Loaded(r.product, base), Loaded(r.product, base)[i], r.config_data)
              => ~ Eligible(Loaded(r.product, base)[i], b, req)

\* C6: a successful select_configuration returns the first fitting
\* (product, pattern) pair in the order (priority mps9, arc24, eq36lp; rank
\* of the pattern among the product's candidates): no pattern of an earlier
\* product with the required credit fits, and no earlier-ranked pattern of
\* the chosen product with the required credit fits; it fails only if no
\* pattern of any product with the required credit fits.
C6_FirstFittingPair ==
    SelectReturned =>
        /\ result.success =>
              /\ result.config_type = config_type
              /\ FirstEligiblePair(result, user_boundary, required_sqft, BaseOf(config_type))
        /\ ~ result.success => ~ TypeSucceeds(user_boundary, required_sqft, config_type)

\* another loaded pattern of the class is eligible and has less credit than
\* the one of result r
SmallerEligible(p, r, b, req, base) ==
    \E i \in DOMAIN Loaded(p, base) :
        /\ Eligible(Loaded(p, base)[i], b, req)
        /\ Loaded(p, base)[i].metadata.credit_sqft < r.metadata.credit_sqft

\* the returned pattern is of mps9 although a later-ranked pattern of mps9
\* and a pattern of arc24 both fit with a smaller credit
C6_Witness ==
    /\ SelectReturned
    /\ result.success
    /\ result.product = "mps9"
    /\ SmallerEligible("mps9", result, user_boundary, required_sqft, BaseOf(config_type))
    /\ SmallerEligible("arc24", result, user_boundary, required_sqft, BaseOf(config_type))

\* C7: a placement returned by select_configuration has credit_sqft >= the
\* required area passed to it; a single-field success of apply_hierarchy
\* has credit_sqft >= its required_sqft and each field of a split success
\* has credit_sqft >= required_sqft_each.
C7_CreditCoversRequiredArea ==
    /\ (SelectReturned /\ result.success) =>
          result.metadata.credit_sqft >= required_sqft
    /\ SingleSuccess =>
          /\ result.required_sqft = calculate_required_sqft(flow_gpd, result.config_type)
          /\ result.metadata.credit_sqft >= result.required_sqft
          /\ result.config_data.metadata.credit_sqft >= result.required_sqft
    /\ SplitSuccess =>
          /\ result.required_sqft_each = SplitReq(Len(attempted) - 4)
          /\ result.drainfield_1.metadata.credit_sqft >= result.required_sqft_each
          /\ result.drainfield_2.metadata.credit_sqft >= result.required_sqft_each

\* a pattern of product p has a footprint that can be placed on b but has
\* less credit than req
FitsWithoutCredit(p, b, req, base) ==
    \E i \in DOMAIN Loaded(p, base) :
        /\ Loaded(p, base)[i].closed
        /\ CanPlace[[ w |-> Loaded(p, base)[i].w, h |-> Loaded(p, base)[i].h ], b]
        /\ Loaded(p, base)[i].metadata.credit_sqft < req

\* a pattern of arc24 is returned although one of mps9 can be placed: the
\* one of mps9 has too little credit
C7_Witness ==
    /\ SelectReturned
    /\ result.success
    /\ result.product = "arc24"
    /\ result.metadata.credit_sqft >= required_sqft
    /\ FitsWithoutCredit("mps9", user_boundary, required_sqft, BaseOf(config_type))

\* r is the floor of full / 2
IsFloorHalf(r, full) == 2 * r <= full /\ full < 2 * r + 2

\* the select_configuration call number k of apply_hierarchy, k > 4, is for
\* split type number ((k - 5) \div 2) + 1 and boundary number ((k - 5) % 2) + 1
SplitCallType(k) == ((k - 5) \div 2) + 1

\* C11: in the split pass the area passed for each boundary of split_T is
\* floor(calculate_required_sqft(flow, T) / 2), the same for both
\* boundaries, and it is the value reported as required_sqft_each.
C11_SplitAreaIsFloorHalf ==
    entry = "apply_hierarchy" =>
        /\ \A k \in 5..Len(sel_calls) :
              /\ sel_calls[k][1] = SplitNames[SplitCallType(k)]
              /\ sel_calls[k][2] = split_boundaries.list[((k - 5) % 2) + 1]
              /\ IsFloorHalf(sel_calls[k][3],
                             calculate_required_sqft(flow_gpd, SingleOrder[SplitCallType(k)]))
        /\ \A k \in 5..Len(sel_calls) :
              (k - 5) % 2 = 1 => sel_calls[k][3] = sel_calls[k - 1][3]
        /\ (pc \in { "split", "done" } /\ Len(attempted) > 4) =>
              Len(sel_calls) = 4 + 2 * (Len(attempted) - 4)
        /\ SplitSuccess =>
              /\ result.required_sqft_each = sel_calls[Len(sel_calls)][3]
              /\ result.required_sqft_each = sel_calls[Len(sel_calls) - 1][3]

\* a split success whose full requirement is odd: the half is rounded down
C11_Witness ==
    /\ SplitSuccess
    /\ calculate_required_sqft(flow_gpd, SingleOrder[Len(attempted) - 4])
          = 2 * result.required_sqft_each + 1
    /\ result.required_sqft_each > 0

\* the angles of the boundary's edges, as get_boundary_edge_angles gives them
EdgeAngleSet(b) ==
    { get_boundary_edge_angles(b)[i][1] : i \in DOMAIN get_boundary_edge_angles(b) }

\* the Tier-1 candidate set: edge angles, edge angles + 90, the four
\* cardinals, one round of +/-5 of all of these, mod 360
Tier1Base(b) ==
    EdgeAngleSet(b) \cup { e + 90 : e \in EdgeAngleSet(b) } \cup { 0, 90, 180, 270 }

Tier1Candidates(b) ==
    { x % 360 : x \in Tier1Base(b) \cup { y - 5 : y \in Tier1Base(b) }
                                   \cup { y + 5 : y \in Tier1Base(b) } }

Tier1Fitting(poly, b) == { a \in Tier1Candidates(b) : polygon_fits(poly, a, b) }

Tier1Returned == pc = "done" /\ entry = "try_edge_aligned_rotations"

\* C12: when try_edge_aligned_rotations succeeds, the returned angle is
\* the numerically smallest angle of the Tier-1 candidate set at which the
\* centred footprint passes polygon_fits; it fails only if no angle of the
\* set fits.
C12_Tier1SmallestFittingAngle ==
    Tier1Returned =>
        /\ result.fits <=> Tier1Fitting(drainfield_polygon, user_boundary) # {}
        /\ result.fits =>
              /\ result.angle \in Tier1Fitting(drainfield_polygon, user_boundary)
              /\ \A a \in Tier1Fitting(drainfield_polygon, user_boundary) :
                    result.angle <= a

\* the returned angle is not the smallest candidate, and a larger candidate
\* that is not a half turn away fits as well
C12_Witness ==
    /\ Tier1Returned
    /\ result.fits
    /\ \E a \in Tier1Candidates(user_boundary) :
          a < result.angle /\ ~ polygon_fits(drainfield_polygon, a, user_boundary)
    /\ \E a \in Tier1Fitting(drainfield_polygon, user_boundary) :
          a > result.angle /\ a # result.angle + 180

\* the length of the boundary's longest edge
LongestEdge(b) ==
    Max({ get_boundary_edge_angles(b)[i][2] : i \in DOMAIN get_boundary_edge_angles(b) })

\* the angles Tier 1 derives from a set of angles: each angle, the angle
\* + 90, and +/-5 of both, mod 360
DerivedAngles(S) ==
    { (e + d + f) % 360 : e \in S, d \in { 0, 90 }, f \in { 355, 0, 5 } }

\* the angles derived from the longest edges, and from the shorter edges
LongEdgeAngles(b) ==
    DerivedAngles({ get_boundary_edge_angles(b)[i][1] :
                      i \in { j \in DOMAIN get_boundary_edge_angles(b) :
                                get_boundary_edge_angles(b)[j][2] = LongestEdge(b) } })

ShortEdgeAngles(b) ==
    DerivedAngles({ get_boundary_edge_angles(b)[i][1] :
                      i \in { j \in DOMAIN get_boundary_edge_angles(b) :
                                get_boundary_edge_angles(b)[j][2] < LongestEdge(b) } })

CardinalAngles == DerivedAngles({ 0, 180 })

\* C13: in Tier 1 the angles derived from longer edges are tried before
\* the angles derived from shorter edges: when the returned angle comes
\* from a shorter edge only (not from a longest edge, not from a cardinal),
\* no angle derived from a longest edge fits.
C13_LongestEdgesFirst ==
    (Tier1Returned /\ result.fits) =>
        (result.angle \in ShortEdgeAngles(user_boundary)
                          \ (LongEdgeAngles(user_boundary) \cup CardinalAngles)
           => \A a \in LongEdgeAngles(user_boundary) :
                 ~ polygon_fits(drainfield_polygon, a, user_boundary))

\* the angles of the dense sweep at which the centred footprint fits
SweepFitting(poly, b) ==
    { a \in { 5 * k : k \in 0..71 } : polygon_fits(poly, a, b) }

RotationsReturned == pc = "done" /\ entry = "try_rotations"

\* C14: try_rotations returns the smallest fitting Tier-1 angle whenever a
\* Tier-1 angle fits; only when none fits it returns the smallest fitting
\* angle of 0, 5, ..., 355; it reports failure only if no Tier-1 angle and
\* no sweep angle fits.
C14_SweepOnlyAfterTier1Fails ==
    RotationsReturned =>
        /\ Tier1Fitting(drainfield_polygon, user_boundary) # {} =>
              /\ result.fits
              /\ result.angle = Min(Tier1Fitting(drainfield_polygon, user_boundary))
        /\ Tier1Fitting(drainfield_polygon, user_boundary) = {} =>
              /\ result.fits <=> SweepFitting(drainfield_polygon, user_boundary) # {}
              /\ result.fits =>
                    result.angle = Min(SweepFitting(drainfield_polygon, user_boundary))
        /\ ~ result.fits => result.angle = 0

\* a Tier-1 angle is returned although a smaller multiple of 5 that is not
\* a Tier-1 candidate fits
C14_Witness ==
    /\ RotationsReturned
    /\ result.fits
    /\ result.angle \in Tier1Candidates(user_boundary)
    /\ \E a \in SweepFitting(drainfield_polygon, user_boundary) :
          a < result.angle /\ a \notin Tier1Candidates(user_boundary)

\* no Tier-1 angle fits and the sweep finds one
C14_SweepReached ==
    /\ RotationsReturned
    /\ result.fits
    /\ Tier1Fitting(drainfield_polygon, user_boundary) = {}

EdgeAnglesReturned == pc = "done" /\ entry = "get_boundary_edge_angles"

\* C15: get_boundary_edge_angles gives every edge an angle a with
\* 0 <= a < 180, and parallel edges (in a rectangle: the first and third,
\* the second and fourth, which point in opposite directions) get the same
\* angle.
C15_EdgeAnglesBelow180 ==
    EdgeAnglesReturned =>
        /\ Len(result) = 4
        /\ \A i \in 1..4 : result[i][1] >= 0 /\ result[i][1] < 180
        /\ result[1][1] = result[3][1]
        /\ result[2][1] = result[4][1]

PolygonFitsReturned == pc = "done" /\ entry = "polygon_fits"

PlacementReturned == (Tier1Returned \/ RotationsReturned) /\ result.fits

\* the two ways to pass: within, or intersecting with the part outside the
\* boundary below the tolerance
PassesTolerance(poly, angle, b) ==
    \/ Within(poly, angle, b)
    \/ Intersects(poly, angle, b) /\ DifferenceBelowTolerance(poly, angle, b)

\* C16: polygon_fits is true exactly when the footprint is within the
\* boundary, or intersects it with an outside area below 0.001 sq ft; a true
\* result implies the outside area is below the tolerance, a footprint that
\* does not meet the boundary is rejected, and every placement returned by
\* the rotation search satisfies the same condition at the returned angle.
C16_ToleranceInvariant ==
    /\ PolygonFitsReturned =>
          /\ result <=> PassesTolerance(drainfield_polygon, fit_angle, user_boundary)
          /\ result => DifferenceBelowTolerance(drainfield_polygon, fit_angle, user_boundary)
          /\ ~Intersects(drainfield_polygon, fit_angle, user_boundary) => ~result
    /\ PlacementReturned =>
          /\ PassesTolerance(drainfield_polygon, result.angle, user_boundary)
          /\ DifferenceBelowTolerance(drainfield_polygon, result.angle, user_boundary)

\* a footprint that sticks out of the boundary by less than the tolerance
\* is accepted
C16_Witness ==
    /\ PolygonFitsReturned
    /\ result
    /\ ~Within(drainfield_polygon, fit_angle, user_boundary)

\* a footprint that sticks out by the tolerance or more is rejected
C16_Rejected ==
    /\ PolygonFitsReturned
    /\ ~result
    /\ Intersects(drainfield_polygon, fit_angle, user_boundary)
    /\ OffsetX(drainfield_polygon) \in 1..MaxOffset

\* a footprint away from the boundary is rejected
C16_Disjoint ==
    /\ PolygonFitsReturned
    /\ ~result
    /\ ~Intersects(drainfield_polygon, fit_angle, user_boundary)

\* the rotation search returns a placement accepted through the tolerance
C16_PlacedWithinTolerance ==
    /\ PlacementReturned
    /\ ~Within(drainfield_polygon, result.angle, user_boundary)

ValidateReturned == pc = "done" /\ entry = "validate_boundary"

\* four times the area of the polygon, in units of 1/(2 den)^2 sq ft, is at
\* least four times 1.0
AreaAtLeastOne(b) == 4 * b.w * b.h >= 4 * b.den * b.den

\* C17: validate_boundary returns (True, None) exactly when the polygon is
\* valid and its area is at least 1.0 sq ft; an invalid polygon gets the
\* 'not valid (self-intersecting or malformed)' message whatever its area,
\* a valid polygon below 1.0 sq ft the 'too small' message.
C17_ValidateBoundary ==
    ValidateReturned =>
        /\ result.valid <=> (user_boundary.simple /\ AreaAtLeastOne(user_boundary))
        /\ result.valid => result.message = None
        /\ ~ user_boundary.simple =>
              result.message = "Boundary polygon is not valid (self-intersecting or malformed)"
        /\ (user_boundary.simple /\ ~ AreaAtLeastOne(user_boundary)) =>
              result.message = "Boundary area is too small (< 1 sq ft)"

\* a polygon of exactly 1.0 sq ft (two half feet by two half feet) is accepted
C17_Witness ==
    /\ ValidateReturned
    /\ user_boundary.w * user_boundary.h = user_boundary.den * user_boundary.den
    /\ user_boundary.den = 2
    /\ result = [ valid |-> TRUE, message |-> None ]

\* a polygon that is both invalid and below 1.0 sq ft is reported as not valid
C17_InvalidAndSmall ==
    /\ ValidateReturned
    /\ ~ user_boundary.simple
    /\ ~ AreaAtLeastOne(user_boundary)
    /\ ~ result.valid

\* C18: no fit search is started on a boundary that validate_boundary
\* rejects: every boundary given to select_configuration, by whichever
\* entry point, is valid and has an area of at least 1.0 sq ft.
C18_InvalidBoundaryNeverSearched ==
    \A i \in DOMAIN sel_calls :
        /\ IsValid(sel_calls[i][2])
        /\ sel_calls[i][2].w * sel_calls[i][2].h
              >= BoundaryDen(sel_calls[i][2]) * BoundaryDen(sel_calls[i][2])

HierarchyEntry == entry \in { "run_hierarchy_test", "run_full_design" }

\* C19: when the requirements table has a drainfield size for the flow and
\* the configuration type, the hierarchy filters that type's candidates with
\* that size as the required area, and with its own formula otherwise.
C19_TableSupersedesFormula ==
    HierarchyEntry =>
        \A i \in DOMAIN sel_calls :
            IF get_requirements(requirements, flow_gpd, sel_calls[i][1]) # NotFound
            THEN sel_calls[i][3] =
                   get_requirements(requirements, flow_gpd, sel_calls[i][1]).drainfield_size
            ELSE sel_calls[i][3] = calculate_required_sqft(flow_gpd, sel_calls[i][1])

\* the patterns of the list l that meet the required area
MeetArea(l, req) == { i \in DOMAIN l : l[i].metadata.credit_sqft >= req }

\* the three ways a product yields nothing: no catalog (missing or empty),
\* no pattern that meets the area, no such pattern that can be placed
CatalogMiss(p, base) == Loaded(p, base) = << >>

NoCandidates(p, base, req) ==
    ~ CatalogMiss(p, base) /\ MeetArea(Loaded(p, base), req) = {}

NoneFits(p, base, b, req) ==
    /\ MeetArea(Loaded(p, base), req) # {}
    /\ \A i \in MeetArea(Loaded(p, base), req) :
          ~ (Loaded(p, base)[i].closed
             /\ CanPlace[[ w |-> Loaded(p, base)[i].w, h |-> Loaded(p, base)[i].h ], b])

ProductFails(p, base, b, req) ==
    CatalogMiss(p, base) \/ NoCandidates(p, base, req) \/ NoneFits(p, base, b, req)

\* C20: select_configuration fails, with the reason no_fit_<type>, exactly
\* when each of the three products has no catalog, or no pattern that meets
\* the required area, or no such pattern that fits at a tried rotation; so a
\* product that yields nothing never keeps a later product from succeeding,
\* and a candidate that does not fit never keeps the next one from being
\* tried.
C20_TypeFailsOnlyWhenAllExhausted ==
    SelectReturned =>
        /\ ~ result.success <=>
              \A p \in { "mps9", "arc24", "eq36lp" } :
                  ProductFails(p, BaseOf(config_type), user_boundary, required_sqft)
        /\ ~ result.success => result.reason = NoFitReason(config_type)
        /\ result.success =>
              ~ ProductFails(result.product, BaseOf(config_type), user_boundary, required_sqft)

\* the third product succeeds although the catalog of the first is missing
\* and the second has no pattern that meets the area
C20_Witness ==
    /\ SelectReturned
    /\ result.success
    /\ result.product = "eq36lp"
    /\ CatalogMiss("mps9", BaseOf(config_type))
    /\ NoCandidates("arc24", BaseOf(config_type), required_sqft)

\* the pattern returned comes after a candidate of the same product that
\* meets the area, is ranked before it and does not fit
C20_NextCandidateTried ==
    /\ SelectReturned
    /\ result.success
    /\ \E i \in MeetArea(Loaded(result.product, BaseOf(config_type)), required_sqft) :
          /\ RankedBefore(Loaded(result.product, BaseOf(config_type)),
                          Loaded(result.product, BaseOf(config_type))[i],
                          result.config_data)
          /\ Loaded(result.product, BaseOf(config_type))[i].closed
          /\ ~ CanPlace[[ w |-> Loaded(result.product, BaseOf(config_type))[i].w,
                          h |-> Loaded(result.product, BaseOf(config_type))[i].h ],
                        user_boundary]

\* the type fails with the three products failing in the three ways
C20_AllExhausted ==
    /\ SelectReturned
    /\ ~ result.success
    /\ \E p \in { "mps9", "arc24", "eq36lp" } : CatalogMiss(p, BaseOf(config_type))
    /\ \E p \in { "mps9", "arc24", "eq36lp" } :
          NoCandidates(p, BaseOf(config_type), required_sqft)
    /\ \E p \in { "mps9", "arc24", "eq36lp" } :
          NoneFits(p, BaseOf(config_type), user_boundary, required_sqft)

\* a catalog entry without a closed polyline that meets the required area
Malformed(c, req) == ~ c.closed /\ c.metadata.credit_sqft >= req

\* C21: a catalog entry without a closed boundary polyline is passed over
\* when it comes up as a candidate: it is never the selected pattern, and
\* the call succeeds whenever a well-formed pattern of the class meets the
\* area and fits, also one ranked after the malformed entry or one of a
\* following product.
C21_MalformedEntrySkipped ==
    SelectReturned =>
        /\ result.success => result.config_data.closed
        /\ TypeSucceeds(user_boundary, required_sqft, config_type) =>
              /\ result.success
              /\ Eligible(result.config_data, user_boundary, required_sqft)

\* the selected pattern is ranked after a malformed candidate of its product
C21_Witness ==
    /\ SelectReturned
    /\ result.success
    /\ \E i \in DOMAIN Loaded(result.product, BaseOf(config_type)) :
          /\ Malformed(Loaded(result.product, BaseOf(config_type))[i], required_sqft)
          /\ RankedBefore(Loaded(result.product, BaseOf(config_type)),
                          Loaded(result.product, BaseOf(config_type))[i],
                          result.config_data)

\* the selected pattern is of the product after the one whose only
\* candidate is malformed
C21_FollowingProduct ==
    /\ SelectReturned
    /\ result.success
    /\ result.product = "eq36lp"
    /\ \E i \in DOMAIN Loaded("arc24", BaseOf(config_type)) :
          Malformed(Loaded("arc24", BaseOf(config_type))[i], required_sqft)

\* C22: no failure path raises: whatever keys an entry of the catalog
\* lacks, select_configuration and apply_hierarchy return a result that has
\* a 'success' field.
C22_NoExceptionReachesCaller ==
    pc = "done" => "success" \in DOMAIN result

FailureReturned ==
    /\ pc = "done"
    /\ entry \in { "select_configuration", "apply_hierarchy" }
    /\ ~ result.success

\* C23: every failure result of select_configuration and apply_hierarchy
\* carries the list of attempted types, a reason out of no_fit_<type>,
\* needs_split, invalid_split and needs_redesign, and a message; a failed
\* select_configuration carries the reason no_fit_<type> of its own type.
C23_FailureCarriesAttemptedReasonMessage ==
    FailureReturned =>
        /\ { "attempted", "reason", "message" } \subseteq DOMAIN result
        /\ result.reason \in { NoFitReason(t) : t \in AllTypes }
                               \cup { "needs_split", "invalid_split", "needs_redesign" }
        /\ entry = "select_configuration" => result.reason = NoFitReason(config_type)

\* C24: in an axis-aligned rectangle a successful rotation search (whose
\* angle select_configuration returns as the rotation) ends at one of the
\* cardinal angles, never at a perturbation by 5 degrees or a sweep angle.
C24_CardinalInAxisAlignedRectangle ==
    (RotationsReturned /\ result.fits /\ BoundaryRot(user_boundary) = 0) =>
        result.angle \in { 0, 90, 180, 270 }

\* the number of edges of the boundary
EdgeCount(b) == Len(get_boundary_edge_angles(b))

\* C25: the fit search makes a bounded number of fit tests: Tier 1 tests
\* each of its distinct candidate angles at most once, at most
\* 3 * (2n + 4) for n edges, and the sweep adds at most 72 tests, each of
\* 0, 5, ..., 355 at most once; a search that fails has made exactly these.
C25_BoundedFitTests ==
    /\ Tier1Returned =>
          /\ result.trials <= Cardinality(Tier1Candidates(user_boundary))
          /\ result.trials <= 3 * (2 * EdgeCount(user_boundary) + 4)
          /\ result.fits =>
                result.trials =
                  Cardinality({ a \in Tier1Candidates(user_boundary) : a <= result.angle })
    /\ RotationsReturned =>
          /\ result.trials <= Cardinality(Tier1Candidates(user_boundary)) + 72
          /\ result.trials <= 3 * (2 * EdgeCount(user_boundary) + 4) + 72
          /\ ~ result.fits =>
                result.trials = Cardinality(Tier1Candidates(user_boundary)) + 72

\* a search that fails after every Tier-1 angle and all 72 sweep angles
C25_Witness ==
    /\ RotationsReturned
    /\ ~ result.fits
    /\ result.trials = Cardinality(Tier1Candidates(user_boundary)) + 72
    /\ BoundaryRot(user_boundary) % 90 # 0

PlaceReturned == pc = "done" /\ entry = "place_drainfield"

\* the polylines place_drainfield added that it marked as the shoulder
PlacedShoulders ==
    { i \in (Len(OutputCad(base_cad_json).polylines) + 1)..Len(result.polylines) :
        result.polylines[i].metadata.is_shoulder }

\* C27: the shoulder polyline place_drainfield writes (rotated by the result's
\* rotation about the origin place_drainfield takes, then moved by the
\* result's offset) is the selector's fitted_polygon, whatever the shape of
\* the shoulder, and so lies inside the boundary as polygon_fits found it.
C27_PlacedShoulderIsFittedPolygon ==
    PlaceReturned =>
        \A i \in PlacedShoulders :
            /\ result.polylines[i].points = selection_result.fitted_polygon
            /\ FitsPositioned(ShoulderPoints(selection_result.config_data),
                              result.polylines[i].points,
                              selection_result.rotation, user_boundary)


\* the call that has just returned is the second of two with the same arguments
SameCallTwice == pc = "done" /\ first_result # NoResult

C26_SplitTwice ==
    /\ SameCallTwice
    /\ entry = "apply_hierarchy"
    /\ IsSplit(result)
    /\ result.attempted = first_result.attempted

\* the select_configuration calls made so far for a split type
SplitCalls == { i \in DOMAIN sel_calls : sel_calls[i][1] \in SplitTypes }

\* the four single-boundary calls, all made and all failed
SinglePassFailed ==
    /\ Len(sel_calls) >= 4
    /\ \A i \in 1..4 : /\ sel_calls[i][1] = SingleOrder[i]
                        /\ sel_calls[i][2] = user_boundary
    /\ AllSingleFail

\* C28: apply_hierarchy consults split_boundaries only after the single
\* pass has failed for all four types: a call for a split type, and the
\* split loop itself, come only after the four failed single calls; a
\* single-boundary success is returned without any call for a split type or
\* on a split boundary, whatever the length of split_boundaries; the call
\* returns invalid_split exactly when all four single types failed and
\* split_boundaries was supplied with a length other than 2, and then no
\* split type was attempted.
C28_SplitConsultedAfterSinglePass ==
    /\ [](entry = "apply_hierarchy" =>
            /\ (SplitCalls # {} \/ pc = "split") =>
                   /\ SinglePassFailed
                   /\ \A i \in SplitCalls : i > 4
                   /\ Len(split_boundaries.list) = 2
            /\ SingleSuccess => (SplitCalls = {} /\ Len(sel_calls) <= 4)
            /\ pc = "done" =>
                   /\ Failure("invalid_split") <=>
                         /\ AllSingleFail
                         /\ split_boundaries.given
                         /\ Len(split_boundaries.list) # 2
                   /\ Failure("invalid_split") =>
                         /\ SplitCalls = {}
                         /\ attempted = SingleOrder)
    /\ [][(entry = "apply_hierarchy" /\ pc # "split" /\ pc' = "split") =>
            (pc = "standard" /\ hpos > 4 /\ SinglePassFailed)]_vars

\* a single-boundary success on the last single type although three split
\* boundaries were supplied
C28_Witness ==
    /\ SingleSuccess
    /\ Len(split_boundaries.list) = 3
    /\ Len(sel_calls) = 4
    /\ SplitCalls = {}

\* invalid_split for a list of one boundary after the four failed single calls
C28_InvalidSplit ==
    /\ Failure("invalid_split")
    /\ Len(split_boundaries.list) = 1
    /\ Len(sel_calls) = 4

\* the type without its ATU reduction
WithoutAtu(t) == IF HasTrench(t) THEN "trench" ELSE "bed"

AtuSuccess == SingleSuccess /\ HasAtu(result.config_type)

\* C29: in every single-boundary success of an ATU type the selected
\* pattern's credit_sqft is strictly less than the area required of the
\* same class without ATU (calculate_required_sqft(flow, trench) for
\* trench_atu, calculate_required_sqft(flow, bed) for bed_atu): a pattern
\* with the full credit would have been placed by the earlier pass.
C29_AtuCreditBelowFullArea ==
    AtuSuccess =>
        /\ result.metadata.credit_sqft
              < calculate_required_sqft(flow_gpd, WithoutAtu(result.config_type))
        /\ result.metadata.credit_sqft = result.config_data.metadata.credit_sqft

\* a trench_atu success whose pattern has the reduced area or more, and
\* less than the trench area
C29_Witness ==
    /\ AtuSuccess
    /\ result.config_type = "trench_atu"
    /\ result.metadata.credit_sqft >= calculate_required_sqft(flow_gpd, "trench_atu")
    /\ result.metadata.credit_sqft < calculate_required_sqft(flow_gpd, "trench")

\* the same for bed_atu
C29_BedAtu ==
    /\ AtuSuccess
    /\ result.config_type = "bed_atu"
    /\ result.metadata.credit_sqft >= calculate_required_sqft(flow_gpd, "bed_atu")
    /\ result.metadata.credit_sqft < calculate_required_sqft(flow_gpd, "bed")

\* C30: in every split success for split_T the credits of the two placed
\* fields together cover the whole required area:
\* drainfield_1.credit_sqft + drainfield_2.credit_sqft >=
\* calculate_required_sqft(flow, T), also when that area is odd.
C30_SplitCreditsCoverFullArea ==
    SplitSuccess =>
        result.drainfield_1.metadata.credit_sqft
          + result.drainfield_2.metadata.credit_sqft
            >= calculate_required_sqft(flow_gpd, SingleOrder[Len(attempted) - 4])

====
